---- MODULE Spec2Model ----
(***************************************************************************)
(* Model of TrackerHacker's cross-column consistency engine               *)
(* (tracker_hacker/utils.py, tracker_hacker/modifications.py).            *)
(*                                                                         *)
(* Text is modelled as a sequence of tokens.  A token is either a maximal  *)
(* run of regex word characters [A-Za-z0-9_] (a "word", kept as one TLA+   *)
(* string) or one single non-word character.  Under this tokenisation a    *)
(* regex \bw\b matches exactly a word token equal to w, str.split(',')     *)
(* splits at "," tokens, and str.strip() drops blank tokens at both ends.  *)
(***************************************************************************)
EXTENDS Integers, Sequences, FiniteSets, TLC

\* ---------------------------------------------------------------- bounds
\* largest number of filter conditions in a generated Filters list
MaxFilters == 3

\* largest number of rows of a loaded table
MaxRows == 2

\* largest number of references in one tracker's removal list
MaxRemove == 2

\* largest number of pairs in a swap map
MaxSwaps == 2

\* the most comma-separated items a text searched for paths holds
MaxItems == 2

\* the most prompts answered while one operation is set up (the loops of
\* the pair entry and of the restore state selection have no bound in the code)
MaxPrompts == 6

\* the most rows of a history export
MaxHistoryRows == 3

\* ------------------------------------------------------- text primitives
WS == {" ", "\n"}

Punct == WS \cup {",", ".", "=", ":", "(", ")", "'", "[", "]", "{", "}", "\""}

IsWord(t) == t \notin Punct

Range(s) == {s[i] : i \in 1..Len(s)}

\* decimal words of the positions a Logic expression can mention
DigitWords == <<"1", "2", "3", "4", "5">>

isdigit(w) == \E n \in 1..Len(DigitWords) : DigitWords[n] = w

ToInt(w) == CHOOSE n \in 1..Len(DigitWords) : DigitWords[n] = w

ToStr(n) == DigitWords[n]

\* str.upper() on the words of the vocabulary: only the boolean operators
\* and SQL keywords occur in more than one letter case
Upper(w) ==
    CASE w \in {"and", "And"} -> "AND"
      [] w \in {"or", "Or"} -> "OR"
      [] w = "select" -> "SELECT"
      [] w = "from" -> "FROM"
      [] w = "where" -> "WHERE"
      [] w = "order" -> "ORDER"
      [] w = "by" -> "BY"
      [] OTHER -> w

Min(S) == CHOOSE x \in S : \A y \in S : x <= y

Max(S) == CHOOSE x \in S : \A y \in S : y <= x

\* the tokens of s at the indices that satisfy Keep, in order
KeepIdx(s, Keep(_)) ==
    LET idx == SelectSeq([i \in 1..Len(s) |-> i], Keep)
    IN [k \in 1..Len(idx) |-> s[idx[k]]]

\* str.lstrip(), str.rstrip(), str.strip()
LStrip(s) == SubSeq(s, Min({i \in 1..Len(s) : s[i] \notin WS} \cup {Len(s) + 1}), Len(s))

RStrip(s) == SubSeq(s, 1, Max({i \in 1..Len(s) : s[i] \notin WS} \cup {0}))

Strip(s) == LStrip(RStrip(s))

\* the positions of the tokens that satisfy IsDelim, ascending
DelimPositions(s, IsDelim(_)) ==
    LET AtDelim(i) == IsDelim(s[i])
    IN SelectSeq([i \in 1..Len(s) |-> i], AtDelim)

\* str.split(sep) for a one-character separator: always at least one piece
Split(s, sep) ==
    LET IsSep(t) == t = sep
        d == DelimPositions(s, IsSep)
        From(k) == IF k = 1 THEN 1 ELSE d[k - 1] + 1
        To(k) == IF k = Len(d) + 1 THEN Len(s) ELSE d[k] - 1
    IN [k \in 1..(Len(d) + 1) |-> SubSeq(s, From(k), To(k))]

\* re.split with a capturing group whose matches are single tokens: the
\* text pieces at odd places, the delimiters at even places
SplitKeep(s, IsDelim(_)) ==
    LET d == DelimPositions(s, IsDelim)
        From(k) == IF k = 1 THEN 1 ELSE d[k - 1] + 1
        To(k) == IF k = Len(d) + 1 THEN Len(s) ELSE d[k] - 1
    IN [k \in 1..(2 * Len(d) + 1) |->
          IF k % 2 = 0 THEN <<s[d[k \div 2]]>>
          ELSE SubSeq(s, From((k + 1) \div 2), To((k + 1) \div 2))]

\* sep.join(parts)
RECURSIVE Join(_, _)
Join(parts, sep) ==
    IF parts = <<>> THEN <<>>
    ELSE IF Len(parts) = 1 THEN parts[1]
    ELSE parts[1] \o sep \o Join(Tail(parts), sep)

\* s.startswith(p)
StartsWith(s, p) == Len(p) <= Len(s) /\ SubSeq(s, 1, Len(p)) = p

\* s.endswith(p)
EndsWith(s, p) == Len(p) <= Len(s) /\ SubSeq(s, Len(s) - Len(p) + 1, Len(s)) = p

\* re.search(r"\b" + re.escape(ref) + r"\b", s): ref is a dotted path of words
MatchAt(s, ref, i) ==
    /\ ref # <<>>
    /\ i + Len(ref) - 1 <= Len(s)
    /\ SubSeq(s, i, i + Len(ref) - 1) = ref

SearchWord(s, ref) == \E i \in 1..Len(s) : MatchAt(s, ref, i)

\* re.search with re.IGNORECASE
FoldSeq(s) == [i \in 1..Len(s) |-> Upper(s[i])]

SearchWordI(s, ref) == SearchWord(FoldSeq(s), FoldSeq(ref))

\* collapse " " and "\n" runs: re.sub(r'\s+', ' ', s)
CollapseWS(s) ==
    LET blanked == [i \in 1..Len(s) |-> IF s[i] \in WS THEN " " ELSE s[i]]
        FirstOfRun(i) == ~(s[i] \in WS /\ i > 1 /\ s[i - 1] \in WS)
    IN KeepIdx(blanked, FirstOfRun)

\* the comma-list idiom [i.strip() for i in text.split(',') if i.strip()]
StripAll(parts) == [i \in 1..Len(parts) |-> Strip(parts[i])]

NonEmpty(x) == x # <<>>

CommaItems(text) == SelectSeq(StripAll(Split(text, ",")), NonEmpty)

\* ------------------------------------------------------------ frame cells
\* pandas reads an empty CSV cell as NaN, not as '': NaN is a cell value of
\* its own (a one-token text no text column can hold), str(NaN) is 'nan',
\* and to_csv writes NaN and '' alike, as nothing
NaN == <<"<NaN>">>

\* x if pd.notna(x) else ''
OrEmpty(x) == IF x = NaN THEN <<>> ELSE x

\* str(x) of a cell
str(x) == IF x = NaN THEN <<"nan">> ELSE x

\* --------------------------------------------------------------- utils.py
\* words that end in "__r" (relationship segments of a dotted path)
RelSegments == {"Rel__r", "Own__r"}

remove_field_from_text(text_content, field_api_path_to_remove) ==
    IF Strip(field_api_path_to_remove) = <<>> THEN text_content
    ELSE LET items == CommaItems(text_content)
             Kept(item) == item # field_api_path_to_remove
         IN Join(SelectSeq(items, Kept), <<",", " ">>)

\* item.split(separator, 1): index of the first separator, 0 when absent
FirstIndex(s, sep) ==
    IF \E i \in 1..Len(s) : s[i] = sep
    THEN CHOOSE i \in 1..Len(s) : s[i] = sep /\ \A j \in 1..(i - 1) : s[j] # sep
    ELSE 0

remove_key_value_entry(kv_string, key_to_remove, separator) ==
    IF kv_string = <<>> \/ key_to_remove = <<>> THEN kv_string
    ELSE LET items == CommaItems(kv_string)
             Kept(item) ==
                 LET k == FirstIndex(item, separator)
                 IN IF k > 0
                    THEN Strip(SubSeq(item, 1, k - 1)) # key_to_remove
                    ELSE TRUE
         IN Join(SelectSeq(items, Kept), <<",", " ">>)

\* re.sub(r"\b" + re.escape(old) + r"\b", new, text): leftmost, non-overlapping
RECURSIVE SubFrom(_, _, _, _)
SubFrom(text, old, new, i) ==
    LET matches == {m \in i..Len(text) : MatchAt(text, old, m)}
    IN IF matches = {} THEN SubSeq(text, i, Len(text))
       ELSE SubSeq(text, i, Min(matches) - 1) \o new
              \o SubFrom(text, old, new, Min(matches) + Len(old))

swap_field_in_text(text, old_exact_api, new_exact_api) ==
    SubFrom(text, old_exact_api, new_exact_api, 1)

\* the bug of appending without the membership test of line 70
RECURSIVE AddEachAlways(_, _)
AddEachAlways(items, to_add) ==
    IF to_add = <<>> THEN items
    ELSE AddEachAlways(Append(items, Head(to_add)), Tail(to_add))

RECURSIVE AddEach(_, _)
AddEach(items, to_add) ==
    IF to_add = <<>> THEN items
    ELSE AddEach(IF Head(to_add) \in Range(items) THEN items
                 ELSE Append(items, Head(to_add)), Tail(to_add))

add_fields_to_list(text, fields_to_add_list_canonical) ==
    Join(AddEach(CommaItems(text), fields_to_add_list_canonical), <<",">>)

\* the matches of (?:[a-zA-Z0-9_]+__r\.)*name that start at token i, each
\* given by the index of its last token; the regex takes the longest
ChainEnds(s, name, i) ==
    {k \in i..Len(s) :
        /\ (k - i) % 2 = 0
        /\ s[k] = name
        /\ \A j \in i..(k - 1) :
              IF (j - i) % 2 = 0 THEN s[j] \in RelSegments ELSE s[j] = "."}

\* the bug of reporting the bare name for every occurrence, without the
\* relationship segments in front of it
FindAllFromBare(s, name, i) ==
    {<<name>> : m \in {j \in i..Len(s) : s[j] = name}}

RECURSIVE FindAllFrom(_, _, _)
FindAllFrom(s, name, i) ==
    LET starts == {m \in i..Len(s) : IsWord(s[m]) /\ ChainEnds(s, name, m) # {}}
    IN IF starts = {} THEN {}
       ELSE LET m == Min(starts)
                k == Max(ChainEnds(s, name, m))
            IN {SubSeq(s, m, k)} \cup FindAllFrom(s, name, k + 1)

\* the set of distinct matched paths (the code returns it as a sorted list)
find_contextual_occurrences_of_field(text_to_search, canonical_field_name) ==
    IF text_to_search = <<>> \/ canonical_field_name = "" THEN {}
    ELSE FindAllFrom(text_to_search, canonical_field_name, 1)

\* re.split(r'(\bAND\b|\bOR\b|\(|\)|\b\d+\b)', logic_str): the delimiters
\* (kept, each a piece of its own) and the text between them
IsLogicDelim(t) == t \in {"AND", "OR", "(", ")"} \/ isdigit(t)

\* index of the first token at or after i that is not blank (Len+1 if none)
SkipWS(s, i) == Min({j \in i..Len(s) : s[j] \notin WS} \cup {Len(s) + 1})

\* index of the first token of the blank run that ends just before i
BackWS(s, i) == Max({j \in 1..(i - 1) : s[j] \notin WS} \cup {0}) + 1

\* the bug of keeping a surviving position's number (no shift)
LogicNewTokenNoShift(tok, removed_positions) ==
    LET t == Strip(tok)
    IN IF Len(t) = 1 /\ isdigit(t[1])
       THEN IF ToInt(t[1]) \notin removed_positions THEN t[1] ELSE ""
       ELSE IF Len(t) = 1 /\ (Upper(t[1]) \in {"AND", "OR"} \/ t[1] \in {"(", ")"})
       THEN Upper(t[1])
       ELSE ""

\* lines 115-123: drop removed positions, shift the others down, keep
\* operators and parentheses, discard everything else ("" marks a token
\* that is not appended)
LogicNewToken(tok, removed_positions) ==
    LET t == Strip(tok)
    IN IF Len(t) = 1 /\ isdigit(t[1])
       THEN LET pos == ToInt(t[1])
                shift == Cardinality({r_pos \in removed_positions : r_pos < pos})
            IN IF pos \notin removed_positions THEN ToStr(pos - shift) ELSE ""
       ELSE IF Len(t) = 1 /\ (Upper(t[1]) \in {"AND", "OR"} \/ t[1] \in {"(", ")"})
       THEN Upper(t[1])
       ELSE ""

LogicNewTokens(tokens, removed_positions) ==
    LET Appended(t) == t # ""
    IN SelectSeq([i \in 1..Len(tokens) |-> LogicNewToken(tokens[i], removed_positions)],
                 Appended)

\* lines 124-129: collapse a repeated AND AND / OR OR
LogicCollapse(new_tokens) ==
    LET NotRepeat(i) == ~(i > 1 /\ new_tokens[i] = new_tokens[i - 1]
                              /\ new_tokens[i] \in {"AND", "OR"})
    IN KeepIdx(new_tokens, NotRepeat)

\* re.sub(r'\(\s*', '(', s)
TightenOpen(s) ==
    LET Kept(i) == ~(s[i] \in WS /\ BackWS(s, i) > 1 /\ s[BackWS(s, i) - 1] = "(")
    IN KeepIdx(s, Kept)

\* re.sub(r'\s*\)', ')', s)
TightenClose(s) ==
    LET Kept(i) == ~(s[i] \in WS /\ SkipWS(s, i) <= Len(s) /\ s[SkipWS(s, i)] = ")")
    IN KeepIdx(s, Kept)

\* re.sub(r'\b(AND|OR)\s*$', '', s, flags=re.IGNORECASE)
DropTrailingOp(s) ==
    LET r == RStrip(s)
    IN IF r # <<>> /\ Upper(r[Len(r)]) \in {"AND", "OR"}
       THEN SubSeq(r, 1, Len(r) - 1)
       ELSE s

\* re.sub(r'^\s*(AND|OR)\s+', '', s, flags=re.IGNORECASE)
DropLeadingOp(s) ==
    LET l == LStrip(s)
    IN IF Len(l) >= 2 /\ Upper(l[1]) \in {"AND", "OR"} /\ l[2] \in WS
       THEN LStrip(Tail(l))
       ELSE s

LogicDigits(toks) == {t \in Range(toks) : isdigit(t)}

\* lines 134-139: the joined tokens, parentheses tightened, a trailing and a
\* leading operator cut off
LogicJoined(collapsed) ==
    Strip(DropLeadingOp(DropTrailingOp(TightenClose(TightenOpen(
        Join([i \in 1..Len(collapsed) |-> <<collapsed[i]>>], <<" ">>))))))

\* the bug of leaving out the single-survivor collapse of lines 130-133
LogicTextNoCollapse(collapsed) == LogicJoined(collapsed)

\* lines 130-139: one distinct position left gives that position alone
LogicText(collapsed) ==
    IF Cardinality(LogicDigits(collapsed)) = 1
    THEN <<CHOOSE d \in LogicDigits(collapsed) : TRUE>>
    ELSE LogicJoined(collapsed)

update_logic(logic_str, removed_positions) ==
    IF logic_str = <<>> THEN <<>>
    ELSE LogicText(LogicCollapse(LogicNewTokens(
             SplitKeep(logic_str, IsLogicDelim), removed_positions)))

\* ---------------------------------------------------- utils.update_query
IsKw(s, i, kw) == i >= 1 /\ i <= Len(s) /\ Upper(s[i]) = kw

IsBlankAt(s, i) == i >= 1 /\ i <= Len(s) /\ s[i] \in WS

\* re.match(r"(?i)(SELECT\s+)(.*?)(\s+FROM\s+)", query_str): the three groups
\* as index ranges [1..b], [b+1..e-1], [e..g]; ok = FALSE when no match
SelectMatch(q) ==
    IF ~(IsKw(q, 1, "SELECT") /\ IsBlankAt(q, 2)) THEN [ok |-> FALSE, b |-> 0, e |-> 0, g |-> 0]
    ELSE LET a == SkipWS(q, 2)
             Froms == {f \in (a + 1)..Len(q) :
                          IsKw(q, f, "FROM") /\ IsBlankAt(q, f - 1) /\ IsBlankAt(q, f + 1)}
         IN IF Froms # {} /\ LET f == CHOOSE f \in Froms : \A f2 \in Froms : f <= f2
                             IN \A j \in a..(BackWS(q, f) - 1) : q[j] # "\n"
            THEN LET f == CHOOSE f \in Froms : \A f2 \in Froms : f <= f2
                 IN [ok |-> TRUE, b |-> a - 1, e |-> BackWS(q, f), g |-> SkipWS(q, f + 1) - 1]
            ELSE IF a > 3 /\ IsKw(q, a, "FROM") /\ IsBlankAt(q, a + 1)
            THEN [ok |-> TRUE, b |-> a - 2, e |-> a - 1, g |-> SkipWS(q, a + 1) - 1]
            ELSE [ok |-> FALSE, b |-> 0, e |-> 0, g |-> 0]

PathHit(expr, paths) ==
    expr \in paths \/ \E rem_path \in paths : StartsWith(expr, rem_path \o <<".">>)

\* lines 143-152
QuerySelectStep(query_str, contextual_paths_to_remove) ==
    LET m == SelectMatch(query_str)
    IN IF ~m.ok THEN query_str
       ELSE LET fields_in_select == StripAll(Split(SubSeq(query_str, m.b + 1, m.e - 1), ","))
                Kept(expr) == ~PathHit(expr, contextual_paths_to_remove)
            IN SubSeq(query_str, 1, m.b)
                 \o Join(SelectSeq(fields_in_select, Kept), <<",">>)
                 \o SubSeq(query_str, m.e, Len(query_str))

\* re.match(r"(.*?WHERE\s+)(.*?)(\s+ORDER\s+BY.*|$)", ..., IGNORECASE | DOTALL):
\* groups [1..c-1], [c..p-1], [p..z]
WhereMatch(q) ==
    LET Wheres == {h \in 1..Len(q) : IsKw(q, h, "WHERE") /\ IsBlankAt(q, h + 1)}
    IN IF Wheres = {} THEN [ok |-> FALSE, c |-> 0, p |-> 0, z |-> 0]
       ELSE LET h == CHOOSE h \in Wheres : \A h2 \in Wheres : h <= h2
                c == SkipWS(q, h + 1)
                Orders == {o \in (c + 1)..Len(q) :
                              /\ IsKw(q, o, "ORDER") /\ IsBlankAt(q, o - 1) /\ IsBlankAt(q, o + 1)
                              /\ IsKw(q, SkipWS(q, o + 1), "BY")}
            IN IF Orders # {}
               THEN LET o == CHOOSE o \in Orders : \A o2 \in Orders : o <= o2
                    IN [ok |-> TRUE, c |-> c, p |-> BackWS(q, o), z |-> Len(q)]
               ELSE IF c <= Len(q) /\ q[Len(q)] = "\n"
               THEN [ok |-> TRUE, c |-> c, p |-> Len(q), z |-> Len(q) - 1]
               ELSE [ok |-> TRUE, c |-> c, p |-> Len(q) + 1, z |-> Len(q)]

\* re.split(r"(\bAND\b|\bOR\b)", condition_p, flags=re.IGNORECASE)
IsBoolOp(part) == Len(part) = 1 /\ Upper(part[1]) \in {"AND", "OR"}

IsBoolWord(t) == Upper(t) \in {"AND", "OR"}

Last(s) == s[Len(s)]

ButLast(s) == SubSeq(s, 1, Len(s) - 1)

\* lines 158-177: the while loop over parts_cond
RECURSIVE CondLoop(_, _, _)
CondLoop(parts_cond, new_cond_parts, paths) ==
    IF parts_cond = <<>> THEN new_cond_parts
    ELSE LET part_c == Strip(Head(parts_cond))
             lastIsOp == new_cond_parts # <<>> /\ IsBoolOp(Last(new_cond_parts))
             removed == \E f_rem \in paths : SearchWordI(part_c, f_rem)
         IN IF IsBoolOp(part_c)
            THEN CondLoop(Tail(parts_cond),
                          IF new_cond_parts # <<>> /\ ~lastIsOp
                          THEN Append(new_cond_parts, <<Upper(part_c[1])>>)
                          ELSE new_cond_parts, paths)
            ELSE IF removed
            THEN CondLoop(Tail(parts_cond),
                          IF lastIsOp THEN ButLast(new_cond_parts) ELSE new_cond_parts, paths)
            ELSE CondLoop(Tail(parts_cond), Append(new_cond_parts, part_c), paths)

\* re.sub(r'\s+(AND|OR)\s*$', '', s_cond, flags=re.IGNORECASE)
DropTrailingOpWS(s) ==
    LET r == RStrip(s)
    IN IF Len(r) >= 2 /\ Upper(r[Len(r)]) \in {"AND", "OR"} /\ r[Len(r) - 1] \in WS
       THEN RStrip(ButLast(r))
       ELSE s

CountTok(s, t) == Cardinality({i \in 1..Len(s) : s[i] = t})

\* lines 181-182 and 188-189: the query without its WHERE clause
QueryWithoutWhere(prefix_w, suffix_o) ==
    Strip(RStrip(ButLast(Strip(prefix_w))) \o suffix_o)

\* lines 178-179: a trailing AND/OR of new_cond_parts is popped
PopTrailingOp(new_cond_parts) ==
    IF new_cond_parts # <<>> /\ IsBoolOp(Last(new_cond_parts))
    THEN ButLast(new_cond_parts) ELSE new_cond_parts

\* lines 183-186: the joined condition text, blanks collapsed, a leading and
\* a trailing operator cut off
CondText(new_cond_parts) ==
    DropTrailingOpWS(DropLeadingOp(Strip(CollapseWS(Join(new_cond_parts, <<" ">>)))))

\* lines 190-191: s_cond is wrapped in parentheses unless it starts with "(",
\* ends with ")" and has as many "(" as ")"
WrapCond(s_cond) ==
    IF /\ StartsWith(s_cond, <<"(">>) /\ EndsWith(s_cond, <<")">>)
       /\ CountTok(s_cond, "(") = CountTok(s_cond, ")")
    THEN s_cond
    ELSE <<"(">> \o s_cond \o <<")">>

\* lines 180-192, given the three groups of the WHERE match
QueryAssemble(prefix_w, new_cond_parts, s_cond, suffix_o) ==
    IF new_cond_parts = <<>> \/ s_cond = <<>>
    THEN QueryWithoutWhere(prefix_w, suffix_o)
    ELSE Strip(Strip(prefix_w) \o <<" ">> \o WrapCond(s_cond) \o <<" ">> \o Strip(suffix_o))

\* lines 156-192, given the three groups of the WHERE match
QueryRebuild(prefix_w, new_cond_parts, suffix_o) ==
    QueryAssemble(prefix_w, new_cond_parts, CondText(new_cond_parts), suffix_o)

\* lines 153-192, given the match m of line 153
QueryWhereStep(query_str, m, contextual_paths_to_remove) ==
    IF ~m.ok THEN query_str
    ELSE QueryRebuild(SubSeq(query_str, 1, m.c - 1),
                      PopTrailingOp(CondLoop(
                          SplitKeep(SubSeq(query_str, m.c, m.p - 1), IsBoolWord),
                          <<>>, contextual_paths_to_remove)),
                      SubSeq(query_str, m.p, m.z))

\* lines 153-192, given the query text the SELECT step left
QueryAfterSelect(query_str, contextual_paths_to_remove) ==
    QueryWhereStep(query_str, WhereMatch(query_str), contextual_paths_to_remove)

update_query(query_str, contextual_paths_to_remove) ==
    QueryAfterSelect(QuerySelectStep(query_str, contextual_paths_to_remove),
                     contextual_paths_to_remove)

\* label root of a path segment: a trailing "__c" or "__r" cut off, "_"
\* turned into blanks, str.title() applied
LabelRoot(w) ==
    CASE w = "A__c" -> "A"
      [] w = "B__c" -> "B"
      [] w = "C__c" -> "C"
      [] w = "D__c" -> "D"
      [] w = "Rel__r" -> "Rel"
      [] w = "Own__r" -> "Own"
      [] OTHER -> w

\* the segments of a dotted path: full_api_path.split('.')
Segments(path) == Split(path, ".")

SegmentWord(seg) == IF Len(seg) = 1 THEN seg[1] ELSE ""

generate_sitetracker_filter_label(full_api_path) ==
    IF full_api_path = <<>> THEN ""
    ELSE LabelRoot(SegmentWord(Last(Segments(full_api_path))))

get_sitetracker_filter_sobject(full_api_path, base_tracker_sobject_name) ==
    IF full_api_path = <<>> THEN base_tracker_sobject_name
    ELSE LET parts == Segments(full_api_path)
         IN IF Len(parts) = 1 THEN base_tracker_sobject_name
            ELSE LET rel == SegmentWord(parts[Len(parts) - 1])
                 IN CASE rel = "Rel__r" -> "Rel__c"
                      [] rel = "Own__r" -> "Own__c"
                      [] OTHER -> rel

\* ------------------------------------------------ the Filters column (JSON)
\* A Filters cell is modelled by what json.loads makes of its text:
\*   kind "list"      a JSON array; conds are its elements, fmt the layout of
\*                    the text ("dumps" is the layout json.dumps writes)
\*   kind "nonlist"   valid JSON that is not an array (null, an object, ...)
\*   kind "blank"     empty or whitespace-only text
\*   kind "malformed" text json.loads rejects; raw is the text
\* An element of the array is a dict (isdict) or anything else; the 'field'
\* of a dict is a string (fkind "str"), missing ("absent": get() gives '')
\* or a non-string value ("nonstr"); NoKey marks a missing label/sobject.
NoKey == "<no key>"

Cond(f, l, so) ==
    [isdict |-> TRUE, fkind |-> "str", field |-> f, label |-> l, sobject |-> so]

FiltersList(conds, fmt) == [kind |-> "list", conds |-> conds, fmt |-> fmt, raw |-> <<>>]

\* json.dumps(a_list)
json_dumps(conds) == FiltersList(conds, "dumps")

\* f_dict.get('field', '') of a dict element
GetField(c) == IF c.fkind = "absent" THEN <<>> ELSE c.field

\* ------------------------------------- modifications.modify_trackers, a row
\* the bug of looking for new_api in Fields only
new_field_exists_in_rowFieldsOnly(row, new_api) == SearchWord(row.Fields, new_api)

\* lines 134-146: is new_api already in the row (a filter's field, or a
\* word-bounded occurrence in Fields)?
new_field_exists_in_row(row, new_api) ==
    \/ /\ row.Filters.kind = "list"
       /\ \E i \in 1..Len(row.Filters.conds) :
             LET fd == row.Filters.conds[i]
             IN fd.isdict /\ fd.fkind # "nonstr" /\ GetField(fd) = new_api
    \/ SearchWord(OrEmpty(row.Fields), new_api)

\* lines 123-153: the row's removal list and the swaps that stay swaps
RECURSIVE SwapToRemove(_, _, _)
SwapToRemove(row, swap_map_cmd, remove_list) ==
    IF swap_map_cmd = <<>> THEN remove_list
    ELSE LET old_api == Head(swap_map_cmd)[1]
             new_api == Head(swap_map_cmd)[2]
         IN SwapToRemove(row, Tail(swap_map_cmd),
                IF new_field_exists_in_row(row, new_api) /\ old_api \notin Range(remove_list)
                THEN Append(remove_list, old_api)
                ELSE remove_list)

EffectiveSwapMap(row, swap_map_cmd) ==
    LET Stays(pair) == ~new_field_exists_in_row(row, pair[2])
    IN SelectSeq(swap_map_cmd, Stays)

EffectiveRemoveList(row, removal_instructions, swap_map_cmd) ==
    SwapToRemove(row, swap_map_cmd,
        IF removal_instructions.isdict /\ row.id \in DOMAIN removal_instructions.plan
        THEN removal_instructions.plan[row.id]
        ELSE <<>>)

\* lines 157-163
ContextualPaths(row, remove_list) ==
    Range(remove_list) \cup
    UNION {find_contextual_occurrences_of_field(str(row.Fields), SegmentWord(Last(Segments(rem))))
             : rem \in Range(remove_list)}

\* lines 170-185: the surviving conditions and the removed 1-based positions
FilterHit(f_cond, paths) == PathHit(GetField(f_cond), paths)

RemoveFilters(filters, paths) ==
    IF filters.kind = "malformed"
    THEN [filters |-> filters, removed |-> {}, raised |-> FALSE]
    ELSE IF filters.kind # "list"
    THEN [filters |-> json_dumps(<<>>), removed |-> {}, raised |-> FALSE]
    ELSE LET conds == filters.conds
             Kept(c) == c.isdict /\ ~FilterHit(c, paths)
         IN [filters |-> json_dumps(SelectSeq(conds, Kept)),
             removed |-> {pos \in 1..Len(conds) : conds[pos].isdict /\ FilterHit(conds[pos], paths)},
             \* field_val.startswith on a non-string 'field': AttributeError,
             \* which the except clause of line 184 does not catch
             raised  |-> \E pos \in 1..Len(conds) :
                             conds[pos].isdict /\ conds[pos].fkind = "nonstr"]

\* lines 194-204: Formatting is processed as lines of "field[:x] = value"
FormattingLineKept(line, paths) ==
    LET kv_parts == Split(line, "=")
    IN IF Len(kv_parts) = 2
       THEN ~PathHit(Strip(Split(Strip(kv_parts[1]), ":")[1]), paths)
       ELSE TRUE

RemoveFormatting(formatting, paths) ==
    LET Kept(line) == FormattingLineKept(line, paths)
    IN Join(SelectSeq(Split(formatting, "\n"), Kept), <<"\n">>)

\* lines 156-215
RemoveStep(row, remove_list) ==
    LET paths == ContextualPaths(row, remove_list)
        first == remove_list[1]
        rf == RemoveFilters(row.Filters, paths)
    IN [row EXCEPT
          !.Fields = remove_field_from_text(OrEmpty(row.Fields), first),
          !.Filters = rf.filters,
          !.Logic = update_logic(str(row.Logic), rf.removed),
          !.Query = update_query(str(row.Query), paths),
          !.Formatting = RemoveFormatting(OrEmpty(row.Formatting), paths),
          !.OrderBy = remove_key_value_entry(OrEmpty(row.OrderBy), first, "="),
          !.ResizeMap = remove_key_value_entry(OrEmpty(row.ResizeMap), first, "="),
          !.LabelMap = remove_key_value_entry(OrEmpty(row.LabelMap), first, ":")]

\* the bug of copying label and sobject from the old condition
SwapFiltersCopied(filters, old_api_full, new_api_full, base_sobject) ==
    IF filters.kind \in {"malformed", "nonlist"} THEN filters
    ELSE IF filters.kind = "blank" THEN json_dumps(<<>>)
    ELSE json_dumps([i \in 1..Len(filters.conds) |->
            LET f_dict == filters.conds[i]
            IN IF f_dict.isdict /\ f_dict.fkind # "nonstr" /\ GetField(f_dict) = old_api_full
               THEN [f_dict EXCEPT !.fkind = "str", !.field = new_api_full]
               ELSE f_dict])

\* lines 226-240
SwapFilters(filters, old_api_full, new_api_full, base_sobject) ==
    IF filters.kind \in {"malformed", "nonlist"} THEN filters
    ELSE IF filters.kind = "blank" THEN json_dumps(<<>>)
    ELSE json_dumps([i \in 1..Len(filters.conds) |->
            LET f_dict == filters.conds[i]
            IN IF f_dict.isdict /\ f_dict.fkind # "nonstr" /\ GetField(f_dict) = old_api_full
               THEN [f_dict EXCEPT
                       !.fkind = "str",
                       !.field = new_api_full,
                       !.label = IF @ = NoKey THEN NoKey
                                 ELSE generate_sitetracker_filter_label(new_api_full),
                       !.sobject = IF @ = NoKey THEN NoKey
                                   ELSE get_sitetracker_filter_sobject(new_api_full, base_sobject)]
               ELSE f_dict])

SwapLines(text, old, new) ==
    LET lines == Split(text, "\n")
    IN Join([i \in 1..Len(lines) |-> swap_field_in_text(lines[i], old, new)], <<"\n">>)

\* lines 219-273, one pair of the effective swap map
SwapOne(row, old_api_full, new_api_full) ==
    [row EXCEPT
       !.Fields = swap_field_in_text(OrEmpty(row.Fields), old_api_full, new_api_full),
       !.Filters = SwapFilters(row.Filters, old_api_full, new_api_full, row.ObjectName),
       !.Logic = swap_field_in_text(str(row.Logic), old_api_full, new_api_full),
       !.Query = swap_field_in_text(str(row.Query), old_api_full, new_api_full),
       !.Formatting = SwapLines(OrEmpty(row.Formatting), old_api_full, new_api_full),
       !.OrderBy = swap_field_in_text(OrEmpty(row.OrderBy), old_api_full, new_api_full),
       !.ResizeMap = swap_field_in_text(OrEmpty(row.ResizeMap), old_api_full, new_api_full),
       !.LabelMap = swap_field_in_text(OrEmpty(row.LabelMap), old_api_full, new_api_full)]

RECURSIVE SwapStep(_, _)
SwapStep(row, effective_row_swap_map) ==
    IF effective_row_swap_map = <<>> THEN row
    ELSE SwapStep(SwapOne(row, Head(effective_row_swap_map)[1], Head(effective_row_swap_map)[2]),
                  Tail(effective_row_swap_map))

\* lines 276-280
AddStep(row, add_list_cmd) ==
    IF add_list_cmd = <<>> THEN row
    ELSE [row EXCEPT !.Fields = add_fields_to_list(OrEmpty(row.Fields), add_list_cmd)]

\* the body of the loop of line 119 for one selected row
ProcessRow(row, removal_instructions, swap_map_cmd, add_list_cmd) ==
    LET remove_list == EffectiveRemoveList(row, removal_instructions, swap_map_cmd)
        swaps == EffectiveSwapMap(row, swap_map_cmd)
        removed == IF remove_list = <<>> THEN row ELSE RemoveStep(row, remove_list)
    IN AddStep(SwapStep(removed, swaps), add_list_cmd)

RowRaises(row, removal_instructions, swap_map_cmd) ==
    LET remove_list == EffectiveRemoveList(row, removal_instructions, swap_map_cmd)
    IN remove_list # <<>>
       /\ RemoveFilters(row.Filters, ContextualPaths(row, remove_list)).raised

\* ------------------------------------------------------------- the state
VARIABLES
    df_orig,       \* the loaded table handed to modify_trackers: a sequence of rows
    modified_csv,  \* the frame written to modified_<timestamp>.csv
    backup_csv,    \* the frame written to backup_<timestamp>.csv
    last_call,     \* the arguments of the latest modify_trackers call
    outcome,       \* "none", "written" (the operation's files written) or "raised"
    pc,            \* main_loop: "initial_load" (cli.py 361), "menu" (368) or "ended"
    main_df_is_None, \* state.main_df is None
    Tracker,       \* the 'Tracker Name' column of state.main_df, and whether
                   \* the frame also has a 'Tracker' column of the same names
    chosen_action, \* cli.py 387-390: the latest menu choice
    load_result,   \* what the latest load_source_data_csv returned, and the
                   \* required columns the CSV it read was missing
    restore_result, \* the RestoreResult of the latest restore and its report
    audit_call,    \* the latest master_audit call of the menu and its report
    dialog,        \* the prompts of the operation being set up: the prompt
                   \* waiting for an answer, the answers so far, the inputs
                   \* collected from them
    history        \* a tracker history export, the state options built from
                   \* it, the summary printed of one and a restore computed from it

vars == <<df_orig, modified_csv, backup_csv, last_call, outcome, pc, main_df_is_None,
          Tracker, chosen_action, load_result, restore_result, audit_call, dialog, history>>

Row(id, fields, filters, logic, query, formatting, order_by, resize_map, label_map) ==
    [id |-> id, ObjectName |-> "Obj", Fields |-> fields, Filters |-> filters,
     Logic |-> logic, Query |-> query, Formatting |-> formatting,
     OrderBy |-> order_by, ResizeMap |-> resize_map, LabelMap |-> label_map]

NoFile == [written |-> FALSE, rows |-> <<>>]

NoCall == [op |-> "none", selected |-> <<>>,
           removal_instructions |-> [isdict |-> FALSE, plan |-> <<>>],
           swap_map_cmd |-> <<>>, add_list_cmd |-> <<>>]

NoLoad == [returns |-> "none", missing |-> {}]

NoRestore == [made |-> FALSE, tracker_name |-> "", before_row |-> <<>>,
              restored_row |-> <<>>, written |-> FALSE]

NoAudit == [canonical_fields |-> <<>>, audit_data_rows |-> <<>>, saved |-> FALSE]

\* cli.py 411-414: no prompt asked, the operation's locals empty
NoDialog ==
    [at |-> "menu", asked |-> <<>>,
     removal_plan_from_audit |-> [isdict |-> FALSE, plan |-> <<>>],
     field_swap_map_cmd |-> <<>>, fields_to_add_list_cmd |-> <<>>,
     tracker_name_selected |-> "",
     restore_selection |-> [operation_flow_control |-> "not called",
                            chosen_state_option |-> <<>>]]

\* no history export read
NoHistory ==
    [history_df |-> <<>>, tracker_name |-> "", built |-> FALSE, options |-> <<>>,
     summarized |-> <<>>, restored |-> <<>>]

\* cli.py 376-385: the choices of the main menu
main_menu_choices ==
    {"load_data", "exit"}
    \cup (IF main_df_is_None THEN {} ELSE {"remove", "swap", "add", "audit", "restore"})

\* cli.py 368-414: the menu hands control to an operation only when it was
\* offered and a table is loaded; the operation before it has returned
OperationStarts(action) ==
    /\ pc = "menu"
    /\ outcome = "none"
    /\ action \in main_menu_choices
    /\ ~main_df_is_None
    /\ chosen_action' = action

\* the bug of writing through an alias of df_orig (no .copy())
FrameAfterRowWritesAliased(orig_frame, written_frame) == written_frame

\* line 116: modified_df_copy = df_orig.copy() is a frame of its own, so the
\* row writes of the loop land in the copy and df_orig keeps its rows
FrameAfterRowWrites(orig_frame, written_frame) == orig_frame

\* DataFrame.to_csv: an empty cell (NaN) and an empty text are both written
\* as nothing
TextColumnNames == {"Fields", "Logic", "Query", "Formatting", "OrderBy", "ResizeMap", "LabelMap"}

to_csv(frame) ==
    [k \in 1..Len(frame) |->
        [col \in DOMAIN frame[k] |->
            IF col \in TextColumnNames THEN OrEmpty(frame[k][col]) ELSE frame[k][col]]]

\* df.loc[selected_indices]
Loc(df, selected_indices) == [k \in 1..Len(selected_indices) |-> df[selected_indices[k]]]

\* lines 114-289
ModifyTrackers(op, selected_indices, removal_instructions, swap_map_cmd, add_list_cmd) ==
    OperationStarts(op) /\
    UNCHANGED <<pc, main_df_is_None, Tracker, load_result, restore_result, audit_call, history>> /\
    LET backup_df == Loc(df_orig, selected_indices)
        modified_df_copy ==
            [idx \in 1..Len(df_orig) |->
                IF idx \in Range(selected_indices)
                THEN ProcessRow(df_orig[idx], removal_instructions, swap_map_cmd, add_list_cmd)
                ELSE df_orig[idx]]
        raises == \E idx \in Range(selected_indices) :
                      RowRaises(df_orig[idx], removal_instructions, swap_map_cmd)
    IN /\ last_call' = [op |-> op, selected |-> selected_indices,
                        removal_instructions |-> removal_instructions,
                        swap_map_cmd |-> swap_map_cmd, add_list_cmd |-> add_list_cmd]
       /\ df_orig' = FrameAfterRowWrites(df_orig, modified_df_copy)
       /\ IF raises
          THEN /\ outcome' = "raised"
               /\ UNCHANGED <<modified_csv, backup_csv>>
          ELSE /\ outcome' = "written"
               /\ modified_csv' = [written |-> TRUE,
                                   rows |-> to_csv(Loc(modified_df_copy, selected_indices))]
               /\ backup_csv' = [written |-> TRUE, rows |-> to_csv(backup_df)]

\* ------------------------------------------------------ the input universe
fA == <<"A__c">>

fB == <<"B__c">>

fC == <<"C__c">>

fD == <<"D__c">>

fRelA == <<"Rel__r", ".", "A__c">>

fRelD == <<"Rel__r", ".", "D__c">>

TrackerIds == <<"T1", "T2", "T3">>

\* a filter condition as Sitetracker writes it
FilterOn(f) == Cond(f, generate_sitetracker_filter_label(f),
                    get_sitetracker_filter_sobject(f, "Obj"))

\* a condition whose 'field' is not a string:  {"field": null}
NullField == [isdict |-> TRUE, fkind |-> "nonstr", field |-> <<>>,
              label |-> NoKey, sobject |-> NoKey]

Malformed(raw) == [kind |-> "malformed", conds |-> <<>>, fmt |-> "raw", raw |-> raw]

\* the text  [{"field": "A__c"   (the closing brackets are missing)
BrokenFiltersText ==
    <<"[", "{", "\"", "field", "\"", ":", " ", "\"", "A__c", "\"">>

CommaSp == <<",", " ">>

Eq(f, v) == f \o <<" ", "=", " ", "'", v, "'">>

Paren(t) == <<"(">> \o t \o <<")">>

And(x, y) == x \o <<" ", "AND", " ">> \o y

Or(x, y) == x \o <<" ", "OR", " ">> \o y

Query(select_items, where, order_by) ==
    <<"SELECT", " ">> \o Join(select_items, CommaSp) \o <<" ", "FROM", " ", "Obj">>
      \o (IF where = <<>> THEN <<>> ELSE <<" ", "WHERE", " ">> \o where)
      \o (IF order_by = <<>> THEN <<>> ELSE <<" ", "ORDER", " ", "BY", " ">> \o order_by)

Quoted(t) == <<"\"">> \o t \o <<"\"">>

\* one formatting rule as JSON text:
\*   {"filters": [{"field": "<f>", "operator": "=", "value": "x"}], "color": "<c>"}
RuleJson(rule) ==
    <<"{">> \o Quoted(<<"filters">>) \o <<":", " ", "[", "{">>
      \o Quoted(<<"field">>) \o <<":", " ">> \o Quoted(rule.field) \o CommaSp
      \o Quoted(<<"operator">>) \o <<":", " ">> \o Quoted(<<"=">>) \o CommaSp
      \o Quoted(<<"value">>) \o <<":", " ">> \o Quoted(<<"x">>)
      \o <<"}", "]">> \o CommaSp
      \o Quoted(<<"color">>) \o <<":", " ">> \o Quoted(<<rule.color>>) \o <<"}">>

\* a Formatting cell holding a JSON array of rules
FormattingJson(rules) ==
    <<"[">> \o Join([i \in 1..Len(rules) |-> RuleJson(rules[i])], CommaSp) \o <<"]">>

Rule(f, c) == [field |-> f, color |-> c]

KV(k, sep, v) == k \o <<sep, v>>

\* the rows of the tables: Fields, Filters, Logic, Query, Formatting,
\* OrderBy(Long), ResizeMap, Label Map
RowTemplates == {
    \* three bare fields, all columns populated
    Row("T", Join(<<fA, fB, fC>>, CommaSp),
        json_dumps(<<FilterOn(fA), FilterOn(fB), FilterOn(fC)>>),
        And(<<"1">>, Paren(Or(<<"2">>, <<"3">>))),
        Query(<<fA, fB, fC>>, And(Eq(fA, "x"), Paren(Or(Eq(fB, "y"), Eq(fC, "z")))), fA),
        FormattingJson(<<Rule(fA, "red"), Rule(fB, "blue")>>),
        Join(<<fA, fB>>, CommaSp),
        Join(<<KV(fA, "=", "100"), KV(fB, "=", "200")>>, <<",">>),
        Join(<<KV(fA, ":", "Alpha"), KV(fB, ":", "Beta")>>, <<",">>)),
    \* a field reached through a relationship; Label Map written with "="
    Row("T", Join(<<fRelA, fB>>, CommaSp),
        json_dumps(<<FilterOn(fRelA), FilterOn(fB)>>),
        Or(<<"1">>, <<"2">>),
        Query(<<fRelA, fB>>, Or(Eq(fRelA, "x"), Eq(fB, "y")), <<>>),
        FormattingJson(<<Rule(fRelA, "red")>>),
        Join(<<fRelA, fB>>, CommaSp),
        Join(<<KV(fA, "=", "100"), KV(fB, "=", "200")>>, <<",">>),
        Join(<<KV(fA, "=", "Alpha"), KV(fB, "=", "Beta")>>, <<",">>)),
    \* the swap target D__c is in OrderBy(Long) and the maps, not in Fields
    Row("T", Join(<<fA, fB>>, <<",">>),
        FiltersList(<<FilterOn(fA)>>, "compact"),
        <<"1">>,
        Query(<<fA, fB>>, Eq(fA, "x"), <<>>),
        NaN,
        Join(<<fA, fD>>, CommaSp),
        KV(fA, "=", "100"),
        KV(fA, ":", "Alpha")),
    \* the swap target D__c is the field of a filter condition
    Row("T", Join(<<fA, fC>>, CommaSp),
        json_dumps(<<FilterOn(fA), FilterOn(fD)>>),
        And(<<"1">>, <<"2">>),
        Query(<<fA, fC>>, And(Eq(fA, "x"), Eq(fD, "y")), <<>>),
        <<"A__c", ":", "color", " ", "=", " ", "red", "\n", "C__c", " ", "=", " ", "blue">>,
        fA,
        KV(fA, "=", "100"),
        KV(fA, ":", "Alpha")),
    \* Filters text that is not valid JSON
    Row("T", Join(<<fA, fB>>, CommaSp),
        Malformed(BrokenFiltersText),
        <<"1">>,
        Query(<<fA, fB>>, Eq(fA, "x"), <<>>),
        NaN, NaN, NaN, NaN),
    \* a condition whose 'field' is null
    Row("T", Join(<<fA, fB>>, CommaSp),
        json_dumps(<<NullField, FilterOn(fB)>>),
        And(<<"1">>, <<"2">>),
        Query(<<fA, fB>>, Eq(fB, "y"), <<>>),
        NaN, NaN, NaN, NaN),
    \* a condition with a stale label and sobject, and one without those keys
    Row("T", Join(<<fA, fC>>, CommaSp),
        json_dumps(<<Cond(fA, "Old", "Old"), Cond(fA, NoKey, NoKey), FilterOn(fC)>>),
        And(<<"1">>, And(<<"2">>, <<"3">>)),
        Query(<<fA, fC>>, Eq(fA, "x"), <<>>),
        NaN, NaN, NaN, NaN),
    \* no A__c anywhere; Fields and Filters written without blanks
    Row("T", Join(<<fB, fC>>, <<",">>),
        FiltersList(<<FilterOn(fB)>>, "compact"),
        <<"1">>,
        Query(<<fB, fC>>, Eq(fB, "y"), <<>>),
        NaN,
        Join(<<fB, fC>>, CommaSp),
        KV(fB, "=", "200"),
        KV(fB, ":", "Beta")),
    \* no filters at all
    Row("T", fB, FiltersList(<<>>, "dumps"), NaN, Query(<<fB>>, <<>>, <<>>),
        NaN, NaN, NaN, NaN) }

WithId(row, i) == [row EXCEPT !.id = TrackerIds[i]]

Tables ==
    UNION {{[i \in 1..n |-> WithId(t[i], i)] : t \in [1..n -> RowTemplates]} : n \in 1..MaxRows}

\* ascending lists of distinct row indices
Selections(n) ==
    {sel \in UNION {[1..k -> 1..n] : k \in 1..n} :
        \A i \in 1..(Len(sel) - 1) : sel[i] < sel[i + 1]}

Distinct(seq) == \A i, j \in 1..Len(seq) : i # j => seq[i] # seq[j]

RemovableRefs == {fA, fB, fRelA}

\* the place of a reference in Python's string order: "A__c" < "B__c" < "Rel__r.A__c"
RefRank(ref) == CASE ref = fA -> 1 [] ref = fB -> 2 [] ref = fRelA -> 3 [] OTHER -> 4

\* cli.py 460-461: a tracker's removal list is sorted(list(set(...)))
RemoveLists ==
    {l \in UNION {[1..k -> RemovableRefs] : k \in 1..MaxRemove} :
        \A i \in 1..(Len(l) - 1) : RefRank(l[i]) < RefRank(l[i + 1])}

\* cli.py 449-461: the plan parsed from the audit file, tracker id -> list
RemovalPlans(n) ==
    {[isdict |-> TRUE, plan |-> [id \in {TrackerIds[i] : i \in dom} |-> l]] :
        dom \in (SUBSET (1..n)) \ {{}}, l \in RemoveLists}

SwapPairs == {<<fA, fD>>, <<fB, fD>>, <<fA, fB>>, <<fRelA, fRelD>>}

SwapMaps ==
    {m \in UNION {[1..k -> SwapPairs] : k \in 1..MaxSwaps} :
        \A i, j \in 1..Len(m) : i # j => m[i][1] # m[j][1]}

AddLists == {<<fD>>, <<fA>>, <<fA, fD>>, <<fD, fD>>}

\* ---- tables for the Filters/Logic contract: one row whose Filters array has
\* 1..MaxFilters conditions and whose Logic mentions exactly their positions
FilterFields == {fA, fB, fRelA}

Num(n) == <<ToStr(n)>>

\* 1 op 2 op ... n
RECURSIVE Chain(_, _)
Chain(op, n) == IF n = 1 THEN Num(1) ELSE Chain(op, n - 1) \o <<" ", op, " ">> \o Num(n)

\* 2 op 3 op ... n
RECURSIVE ChainFrom2(_, _)
ChainFrom2(op, n) ==
    IF n = 2 THEN Num(2) ELSE ChainFrom2(op, n - 1) \o <<" ", op, " ">> \o Num(n)

\* the Logic expressions over the positions 1..n
LogicForms(n) ==
    {Chain("AND", n), Chain("or", n), Paren(Chain("OR", n))}
    \cup (IF n >= 2
          THEN {And(Num(1), Paren(ChainFrom2("OR", n))),
                Or(Paren(Chain("AND", n - 1)), Num(n))}
          ELSE {})

AllFilterFields == Join(<<fA, fB, fRelA>>, CommaSp)

FilterRows ==
    UNION {{Row("T1", AllFilterFields,
                json_dumps([i \in 1..n |-> FilterOn(fs[i])]),
                logic,
                Query(<<fA, fB, fRelA>>, <<>>, <<>>),
                NaN, NaN, NaN, NaN) :
              fs \in [1..n -> FilterFields], logic \in LogicForms(n)} : n \in 1..MaxFilters}

FilterTables == {<<row>> : row \in FilterRows}

\* --------------------------------------------------------------- actions
\* modifications.identify_modifications as cli.py 739-744 calls it (nothing
\* to remove): for each row the columns the call reports
\* lines 86 and 94: a condition of the parsed Filters list has this field
FilterFieldIs(row, api_full_path) ==
    /\ row.Filters.kind = "list"
    /\ \E i \in 1..Len(row.Filters.conds) :
          /\ row.Filters.conds[i].isdict
          /\ row.Filters.conds[i].fkind # "nonstr"
          /\ GetField(row.Filters.conds[i]) = api_full_path

\* lines 84-91
new_field_exists(row, new_api_full_path) ==
    FilterFieldIs(row, new_api_full_path) \/ SearchWord(str(row.Fields), new_api_full_path)

\* lines 83-102, one pair of the swap map
SwapColumns(row, old_api_full_path, new_api_full_path) ==
    (IF FilterFieldIs(row, old_api_full_path)
     THEN {"Filters"} \cup (IF new_field_exists(row, new_api_full_path) THEN {"Logic"} ELSE {})
     ELSE {})
    \cup {col \in TextColumnNames : SearchWord(str(row[col]), old_api_full_path)}

SwapDetected(row, old_api_full_path) ==
    SwapColumns(row, old_api_full_path, old_api_full_path) # {}

\* lines 103-107
AddDetected(row, canonical_fields_to_add) ==
    \E i \in 1..Len(canonical_fields_to_add) :
        canonical_fields_to_add[i] \notin Range(CommaItems(str(row.Fields)))

\* lines 56-109: modified_cols of one row, as the set line 109 makes of it
modified_cols(row, swap_map_input, canonical_fields_to_add) ==
    UNION {SwapColumns(row, swap_map_input[i][1], swap_map_input[i][2])
             : i \in 1..Len(swap_map_input)}
    \cup (IF AddDetected(row, canonical_fields_to_add) THEN {"Fields"} ELSE {})

\* the dict mods: row index -> reported columns, rows with none left out
identify_modifications(df_to_check, swap_map_input, canonical_fields_to_add) ==
    [idx \in {i \in 1..Len(df_to_check) :
                modified_cols(df_to_check[i], swap_map_input, canonical_fields_to_add) # {}}
        |-> modified_cols(df_to_check[idx], swap_map_input, canonical_fields_to_add)]

\* cli.py 417-466, 709-733, 775-785: "remove" passes the plan parsed from the
\* audit file; the trackers offered for selection are those of the plan
ModifyRemove ==
    \E plan \in RemovalPlans(Len(df_orig)) :
        \E sel \in Selections(Len(df_orig)) :
            /\ \A i \in 1..Len(sel) : df_orig[sel[i]].id \in DOMAIN plan.plan
            /\ ModifyTrackers("remove", sel, plan, <<>>, <<>>)
            /\ UNCHANGED dialog

\* cli.py 468-557, 734-785: "swap" passes [] as removal_instructions; the
\* trackers offered for selection are those identify_modifications reports
ModifySwap ==
    \E m \in SwapMaps :
        \E sel \in Selections(Len(df_orig)) :
            /\ Range(sel) \subseteq DOMAIN identify_modifications(df_orig, m, <<>>)
            /\ ModifyTrackers("swap", sel, NoCall.removal_instructions, m, <<>>)
            /\ UNCHANGED dialog

\* cli.py 559-570, 734-785: "add" passes only the list of names to add
ModifyAdd ==
    \E add \in AddLists :
        \E sel \in Selections(Len(df_orig)) :
            /\ Range(sel) \subseteq DOMAIN identify_modifications(df_orig, <<>>, add)
            /\ ModifyTrackers("add", sel, NoCall.removal_instructions, <<>>, add)
            /\ UNCHANGED dialog

\* cli.py 387, 411-414, 791: back at the top of the menu loop chosen_action
\* is None and the operation's locals are fresh; the next call writes files
\* with a new timestamp
ReturnToMenu ==
    /\ outcome = "written"
    /\ outcome' = "none"
    /\ last_call' = NoCall
    /\ modified_csv' = NoFile
    /\ backup_csv' = NoFile
    /\ restore_result' = NoRestore
    /\ audit_call' = NoAudit
    /\ chosen_action' = "none"
    /\ UNCHANGED <<df_orig, pc, main_df_is_None, Tracker, load_result, dialog, history>>

\* the menu, with a table loaded and no operation run yet
AtMenu ==
    /\ modified_csv = NoFile
    /\ backup_csv = NoFile
    /\ last_call = NoCall
    /\ outcome = "none"
    /\ pc = "menu"
    /\ main_df_is_None = FALSE
    /\ Tracker = [present |-> FALSE, names |-> [i \in 1..Len(df_orig) |-> df_orig[i].id]]
    /\ chosen_action = "none"
    /\ load_result = [returns |-> "True", missing |-> {}]
    /\ restore_result = NoRestore
    /\ audit_call = NoAudit
    /\ dialog = NoDialog
    /\ history = NoHistory

Init ==
    /\ df_orig \in Tables
    /\ AtMenu

Next == ModifyRemove \/ ModifySwap \/ ModifyAdd \/ ReturnToMenu

Spec == Init /\ [][Next]_vars

\* the same program started on the tables of the Filters/Logic contract
InitFilters ==
    /\ df_orig \in FilterTables
    /\ AtMenu

SpecFilters == InitFilters /\ [][Next]_vars

\* ------------------------------------------------- audit.master_audit
\* str() of the Filters cell: the JSON text of the array
FilterJson(c, sep) ==
    IF ~c.isdict THEN <<"null">>
    ELSE <<"{">>
         \o Join(
              (IF c.fkind = "absent" THEN <<>>
               ELSE <<Quoted(<<"field">>) \o <<":", " ">>
                        \o (IF c.fkind = "nonstr" THEN <<"null">> ELSE Quoted(c.field))>>)
              \o (IF c.label = NoKey THEN <<>>
                  ELSE <<Quoted(<<"label">>) \o <<":", " ">> \o Quoted(<<c.label>>)>>)
              \o (IF c.sobject = NoKey THEN <<>>
                  ELSE <<Quoted(<<"sobject">>) \o <<":", " ">> \o Quoted(<<c.sobject>>)>>),
              sep)
         \o <<"}">>

FiltersText(filters) ==
    CASE filters.kind = "malformed" -> filters.raw
      [] filters.kind = "blank" -> <<" ">>
      [] filters.kind = "nonlist" -> <<"null">>
      [] OTHER ->
           LET sep == IF filters.fmt = "compact" THEN <<",">> ELSE CommaSp
           IN <<"[">>
              \o Join([i \in 1..Len(filters.conds) |-> FilterJson(filters.conds[i], sep)], sep)
              \o <<"]">>

cols_to_search == TextColumnNames \cup {"Filters"}

\* line 49: str(row_data.get(col_name_audit, ''))
col_content_str(row_data, col_name_audit) ==
    IF col_name_audit = "Filters" THEN FiltersText(row_data.Filters)
    ELSE str(row_data[col_name_audit])

\* lines 38-46: the 'field' values of the conditions that are the audited
\* name or a relationship path ending in it
found_in_filters_structurally(row_data, canonical_field_to_audit) ==
    IF row_data.Filters.kind # "list" THEN {}
    ELSE {GetField(row_data.Filters.conds[i]) :
            i \in {j \in 1..Len(row_data.Filters.conds) :
                     LET c == row_data.Filters.conds[j]
                         v == GetField(c)
                     IN /\ c.isdict
                        /\ c.fkind # "nonstr"
                        /\ \/ v = <<canonical_field_to_audit>>
                           \/ /\ Len(v) >= 2
                              /\ SubSeq(v, Len(v) - 1, Len(v)) = <<".", canonical_field_to_audit>>}}

\* line 43: endswith on a 'field' that is not a string raises AttributeError
StructuralScanRaises(row_data) ==
    /\ row_data.Filters.kind = "list"
    /\ \E j \in 1..Len(row_data.Filters.conds) :
          row_data.Filters.conds[j].isdict /\ row_data.Filters.conds[j].fkind = "nonstr"

\* lines 48-58: path -> the columns whose text holds it
columns_where_found_map(row_data, canonical_field_to_audit) ==
    LET structural == found_in_filters_structurally(row_data, canonical_field_to_audit)
        InText(col) ==
            find_contextual_occurrences_of_field(col_content_str(row_data, col),
                                                 canonical_field_to_audit)
        all_found == structural \cup UNION {InText(col) : col \in cols_to_search}
    IN [path \in all_found |->
          (IF path \in structural THEN {"Filters (Structured)"} ELSE {})
          \cup {col \in cols_to_search :
                  /\ path \in InText(col)
                  /\ ~(col = "Filters" /\ path \in structural)}]

\* the bug of leaving the field loop after the first field in the short mode,
\* whether or not it matched
BreaksAfterAnyField(found, detailed_report) == ~detailed_report

\* lines 60-70: the field loop is left only after a match, in the short mode
BreaksAfter(found, detailed_report) == found /\ ~detailed_report

\* lines 33-70: the loop over the audited names for one row
RECURSIVE AuditRow(_, _, _, _)
AuditRow(row_data, canonical_fields_to_check, detailed_report, acc) ==
    IF canonical_fields_to_check = <<>> THEN acc
    ELSE IF StructuralScanRaises(row_data) THEN [acc EXCEPT !.raised = TRUE]
    ELSE LET canonical_field_to_audit == Head(canonical_fields_to_check)
             found_map == columns_where_found_map(row_data, canonical_field_to_audit)
             found == DOMAIN found_map # {}
             structural == found_in_filters_structurally(row_data, canonical_field_to_audit)
             after ==
                 [raised |-> FALSE,
                  row_had_any_audit_match |-> acc.row_had_any_audit_match \/ found,
                  audit_entry |->
                      IF detailed_report
                      THEN acc.audit_entry \cup
                           {[field |-> canonical_field_to_audit, path |-> path,
                             columns |-> found_map[path],
                             in_filter_def |-> path \in structural] : path \in DOMAIN found_map}
                      ELSE acc.audit_entry]
         IN IF BreaksAfter(found, detailed_report) THEN after
            ELSE AuditRow(row_data, Tail(canonical_fields_to_check), detailed_report, after)

RowAudit(row_data, canonical_fields_to_check, detailed_report) ==
    AuditRow(row_data, canonical_fields_to_check, detailed_report,
             [raised |-> FALSE, row_had_any_audit_match |-> FALSE, audit_entry |-> {}])

\* lines 9-78: the entries (detailed_report) or the indices of the rows that
\* matched, in row order; nothing is returned when a row raises
master_audit(df_to_audit, canonical_fields_to_check, detailed_report) ==
    LET Matched(idx) ==
            RowAudit(df_to_audit[idx], canonical_fields_to_check,
                     detailed_report).row_had_any_audit_match
        found_indices == SelectSeq([idx \in 1..Len(df_to_audit) |-> idx], Matched)
    IN IF \E idx \in 1..Len(df_to_audit) :
             RowAudit(df_to_audit[idx], canonical_fields_to_check, detailed_report).raised
       THEN [raised |-> TRUE, returns |-> <<>>]
       ELSE [raised |-> FALSE,
             returns |->
                 IF detailed_report
                 THEN [k \in 1..Len(found_indices) |->
                         [Index |-> found_indices[k],
                          id |-> df_to_audit[found_indices[k]].id,
                          ObjectName |-> df_to_audit[found_indices[k]].ObjectName,
                          found |-> RowAudit(df_to_audit[found_indices[k]],
                                             canonical_fields_to_check, TRUE).audit_entry]]
                 ELSE found_indices]

\* the lists of names typed at the audit prompt
AuditFieldLists ==
    {<<"A__c">>, <<"D__c">>, <<"A__c", "D__c">>, <<"D__c", "A__c">>,
     <<"C__c", "B__c">>, <<"Zzz__c">>}

\* cli.py 674-700: "audit" runs the detailed audit and saves the report when
\* it has entries
Audit ==
    \E canonical_fields_for_audit \in AuditFieldLists :
        LET audited == master_audit(df_orig, canonical_fields_for_audit, TRUE)
        IN /\ OperationStarts("audit")
           /\ audit_call' = [canonical_fields |-> canonical_fields_for_audit,
                             audit_data_rows |-> audited.returns,
                             saved |-> ~audited.raised /\ audited.returns # <<>>]
           /\ outcome' = IF audited.raised THEN "raised"
                         ELSE IF audited.returns # <<>> THEN "written" ELSE "none"
           /\ UNCHANGED <<df_orig, modified_csv, backup_csv, last_call, pc,
                          main_df_is_None, Tracker, load_result, restore_result, dialog, history>>

\* the menu with only the audit on it
NextAudit == Audit \/ ReturnToMenu

SpecAudit == Init /\ [][NextAudit]_vars

\* ------------------------------------- data_loader.load_source_data_csv
\* the columns data_loader.py 71 checks for (the list of
\* Tracker_Hacker_v0.1.py 20-24)
REQUIRED_COLUMNS ==
    {"Tracker Name Id", "ObjectName", "Tracker Name", "Owner ID", "Fields", "Filters",
     "Logic", "Query", "Formatting", "OrderBy(Long)", "ResizeMap", "Label Map"}

\* the bug of keeping the frame that was read although columns are missing
load_source_data_csvKeepsFrame(choice) ==
    CASE choice.kind = "cancel" -> [returns |-> "return_to_menu", main_df |-> "unchanged", missing |-> {}]
      [] choice.kind = "invalid_path" -> [returns |-> "False", main_df |-> "unchanged", missing |-> {}]
      [] choice.kind = "unreadable" -> [returns |-> "False", main_df |-> "None", missing |-> {}]
      [] OTHER ->
           LET missing == REQUIRED_COLUMNS \ choice.file.columns
           IN [returns |-> IF missing # {} THEN "False" ELSE "True",
               main_df |-> "temp_df", missing |-> missing]

\* lines 13-91: what the call returns and what it does to state.main_df
\* ("unchanged", "None", or "temp_df": the frame read from the file)
load_source_data_csv(choice) ==
    CASE choice.kind = "cancel" ->          \* lines 23-26
           [returns |-> "return_to_menu", main_df |-> "unchanged", missing |-> {}]
      [] choice.kind = "invalid_path" ->    \* lines 31-67
           [returns |-> "False", main_df |-> "unchanged", missing |-> {}]
      [] choice.kind = "unreadable" ->      \* lines 83-91
           [returns |-> "False", main_df |-> "None", missing |-> {}]
      [] OTHER ->                           \* lines 69-82
           LET missing == REQUIRED_COLUMNS \ choice.file.columns
           IN IF missing # {}
              THEN [returns |-> "False", main_df |-> "None", missing |-> missing]
              ELSE [returns |-> "True", main_df |-> "temp_df", missing |-> {}]

\* the effect of the call on the session
LoadInto(choice) ==
    LET loaded == load_source_data_csv(choice)
    IN /\ load_result' = [returns |-> loaded.returns, missing |-> loaded.missing]
       /\ CASE loaded.main_df = "temp_df" ->
                 /\ df_orig' = choice.file.rows
                 /\ Tracker' = [present |-> "Tracker" \in choice.file.columns,
                                names |-> choice.file.names]
                 /\ main_df_is_None' = FALSE
            [] loaded.main_df = "None" ->
                 /\ df_orig' = <<>>
                 /\ Tracker' = [present |-> FALSE, names |-> <<>>]
                 /\ main_df_is_None' = TRUE
            [] OTHER -> UNCHANGED <<df_orig, Tracker, main_df_is_None>>

\* the CSV files of the session: two trackers of one name, two trackers of
\* different names, an export without a 'Tracker' column, and an export
\* without the Logic column
SessionRow1 ==
    Row("T1", Join(<<fA, fB>>, CommaSp), json_dumps(<<FilterOn(fA)>>), <<"1">>,
        Query(<<fA, fB>>, Eq(fA, "x"), <<>>), NaN, NaN, NaN, NaN)

SessionRow2 ==
    Row("T2", Join(<<fB, fD>>, CommaSp), json_dumps(<<>>), NaN,
        Query(<<fB, fD>>, <<>>, <<>>), NaN, fD, NaN, NaN)

CsvFiles ==
    {[columns |-> REQUIRED_COLUMNS \cup {"Tracker"},
      rows |-> <<SessionRow1, SessionRow2>>, names |-> <<"Alpha", "Alpha">>],
     [columns |-> REQUIRED_COLUMNS \cup {"Tracker"},
      rows |-> <<SessionRow1, SessionRow2>>, names |-> <<"Alpha", "Beta">>],
     [columns |-> REQUIRED_COLUMNS,
      rows |-> <<SessionRow1>>, names |-> <<"Alpha">>],
     [columns |-> REQUIRED_COLUMNS \ {"Logic"},
      rows |-> <<SessionRow2>>, names |-> <<"Beta">>]}

NoCsv == [columns |-> {}, rows |-> <<>>, names |-> <<>>]

LoadChoices ==
    {[kind |-> k, file |-> NoCsv] : k \in {"cancel", "invalid_path", "unreadable"}}
    \cup {[kind |-> "csv", file |-> f] : f \in CsvFiles}

\* cli.py 361-366: the load before the menu; anything but True ends the program
InitialLoad ==
    \E choice \in LoadChoices :
        /\ pc = "initial_load"
        /\ LoadInto(choice)
        /\ pc' = IF load_source_data_csv(choice).returns = "True" THEN "menu" ELSE "ended"
        /\ UNCHANGED <<modified_csv, backup_csv, last_call, outcome, chosen_action,
                       restore_result, audit_call, dialog, history>>

\* cli.py 401-405: "Load New Source Data" at the menu
MenuLoad ==
    \E choice \in LoadChoices :
        /\ pc = "menu"
        /\ outcome = "none"
        /\ "load_data" \in main_menu_choices
        /\ chosen_action' = "load_data"
        /\ LoadInto(choice)
        /\ UNCHANGED <<modified_csv, backup_csv, last_call, outcome, pc,
                       restore_result, audit_call, dialog, history>>

\* cli.py 392-394: "Exit"
Exit ==
    /\ pc = "menu"
    /\ outcome = "none"
    /\ "exit" \in main_menu_choices
    /\ chosen_action' = "exit"
    /\ pc' = "ended"
    /\ UNCHANGED <<df_orig, modified_csv, backup_csv, last_call, outcome,
                   main_df_is_None, Tracker, load_result, restore_result, audit_call, dialog, history>>

\* --------------------------------------------------- history_restore.py
\* a row of the history export: 'Tracker', 'Modify Date' (a day/month cell
\* <<day, month>>, or NoDate where the cell holds no date), 'Field',
\* 'API Field', 'Old Value', 'New Value'
HistoryRow(tracker, modify_date, field, api_field, old_value, new_value) ==
    [Tracker |-> tracker, Modify_Date |-> modify_date, Field |-> field,
     API_Field |-> api_field, Old_Value |-> old_value, New_Value |-> new_value]

\* the value None
None == <<"<None>">>

\* a 'Modify Date' cell that is no date
NoDate == <<0, 0>>

\* the None that _parse_timestamp returns
NoTimestamp == <<0>>

\* lines 42-53: pd.to_datetime(dt_value, errors='coerce', dayfirst=True), as
\* the ordinal of the day in its year; None for a cell that is no date
_parse_timestamp(dt_value) ==
    IF dt_value = NoDate THEN NoTimestamp ELSE <<dt_value[2] * 100 + dt_value[1]>>

\* str.lower() on the words of the field names
Lower(w) ==
    CASE w = "Resize" -> "resize"
      [] w = "RESIZE" -> "resize"
      [] w = "Map" -> "map"
      [] w = "MAP" -> "map"
      [] w = "Label" -> "label"
      [] w = "Entries" -> "entries"
      [] w = "Fields" -> "fields"
      [] w = "Query" -> "query"
      [] w = "Logic" -> "logic"
      [] w = "Status" -> "status"
      [] w = "Description" -> "description"
      [] w = "Unknown" -> "unknown"
      [] OTHER -> w

LowerSeq(s) == [i \in 1..Len(s) |-> Lower(s[i])]

\* lines 56-61
_get_field_name(row) ==
    IF row.Field # NaN /\ Strip(str(row.Field)) # <<>> THEN Strip(str(row.Field))
    ELSE IF row.API_Field # NaN /\ Strip(str(row.API_Field)) # <<>>
    THEN Strip(str(row.API_Field))
    ELSE None

\* lines 64-68
_is_ignored_field(field_name) ==
    IF field_name = None THEN FALSE
    ELSE LowerSeq(Strip(field_name)) \in {<<"label", " ", "map">>, <<"resize", " ", "map">>}

UnknownField == <<"Unknown", " ", "field">>

\* the items of seq at their first occurrence, in order
FirstOccurrences(seq) ==
    LET idx == [i \in 1..Len(seq) |-> i]
        IsFirst(i) == \A j \in 1..(i - 1) : seq[j] # seq[i]
        first == SelectSeq(idx, IsFirst)
    IN [k \in 1..Len(first) |-> seq[first[k]]]

\* the members of a set of timestamps, the latest first
Descending(S) ==
    CHOOSE seq \in [1..Cardinality(S) -> S] :
        \A i, j \in 1..Cardinality(S) : i < j => seq[i][1] > seq[j][1]

\* lines 153-214
build_history_state_options(history_df, tracker_name) ==
    LET idx == [i \in 1..Len(history_df) |-> i]
        OfTracker(i) == /\ history_df[i].Tracker = tracker_name
                        /\ _parse_timestamp(history_df[i].Modify_Date) # NoTimestamp
        NotIgnored(i) == ~_is_ignored_field(_get_field_name(history_df[i]))
        tracker_history == SelectSeq(SelectSeq(idx, OfTracker), NotIgnored)
        Stamp(i) == _parse_timestamp(history_df[i].Modify_Date)
        stamps == {Stamp(tracker_history[k]) : k \in 1..Len(tracker_history)}
        Option(modify_ts) ==
            LET InGroup(i) == Stamp(i) = modify_ts
                group == SelectSeq(tracker_history, InGroup)
                field_name(i) == IF _get_field_name(history_df[i]) = None THEN UnknownField
                                 ELSE _get_field_name(history_df[i])
            IN [tracker_name |-> tracker_name,
                restore_to |-> modify_ts,
                fields_changed |-> FirstOccurrences([k \in 1..Len(group) |-> field_name(group[k])]),
                changes |-> [k \in 1..Len(group) |->
                                [field |-> field_name(group[k]),
                                 old_value |-> history_df[group[k]].Old_Value,
                                 new_value |-> history_df[group[k]].New_Value]],
                history_row_indices |-> group]
        ordered == Descending(stamps)
    IN IF tracker_name = ""
       THEN [raised |-> TRUE, options |-> <<>>]
       ELSE [raised |-> FALSE,
             options |-> [k \in 1..Len(ordered) |-> Option(ordered[k])]]

\* the bug of undoing the history rows in the order of the file
relevant_historiesUnsorted(history_df, tracker_name, parsed_restore_ts) ==
    LET Relevant(i) == /\ history_df[i].Tracker = tracker_name
                       /\ _parse_timestamp(history_df[i].Modify_Date) # NoTimestamp
                       /\ _parse_timestamp(history_df[i].Modify_Date)[1] >= parsed_restore_ts[1]
                       /\ ~_is_ignored_field(_get_field_name(history_df[i]))
    IN {SelectSeq(history_df, LAMBDA row : \E i \in 1..Len(history_df) :
                                              history_df[i] = row /\ Relevant(i))}

\* lines 254-264: the rows restore_tracker_state undoes, sorted by
\* sort_values('__parsed_modify_date', ascending=False); its default sort is
\* not stable, so rows of one timestamp come in any order. restore_to is the
\* Timestamp of a state option (cli.py 647-652), which lines 43-44 return as
\* it is
relevant_histories(history_df, tracker_name, parsed_restore_ts) ==
    LET Relevant(i) == /\ history_df[i].Tracker = tracker_name
                       /\ _parse_timestamp(history_df[i].Modify_Date) # NoTimestamp
                       /\ _parse_timestamp(history_df[i].Modify_Date)[1] >= parsed_restore_ts[1]
                       /\ ~_is_ignored_field(_get_field_name(history_df[i]))
        rows == {i \in 1..Len(history_df) : Relevant(i)}
        Stamp(i) == _parse_timestamp(history_df[i].Modify_Date)[1]
        orders == {o \in [1..Cardinality(rows) -> rows] :
                      /\ \A a, b \in 1..Cardinality(rows) : a # b => o[a] # o[b]
                      /\ \A a, b \in 1..Cardinality(rows) : a < b => Stamp(o[a]) >= Stamp(o[b])}
    IN {[k \in 1..Len(o) |-> history_df[o[k]]] : o \in orders}

\* the column of the tracker row a history field name is the label of
\* ("" where the row has no such column)
TrackerColumn(field_name) ==
    CASE field_name = <<"ObjectName">> -> "ObjectName"
      [] field_name = <<"Fields">> -> "Fields"
      [] field_name = <<"Logic">> -> "Logic"
      [] field_name = <<"Query">> -> "Query"
      [] field_name = <<"Formatting">> -> "Formatting"
      [] field_name = <<"OrderBy", "(", "Long", ")">> -> "OrderBy"
      [] field_name = <<"ResizeMap">> -> "ResizeMap"
      [] field_name = <<"Label", " ", "Map">> -> "LabelMap"
      [] OTHER -> ""

\* lines 266-297: the history rows, most recent first, put their 'Old Value'
\* into the working row when their field is one of its columns
RECURSIVE ApplyHistory(_, _)
ApplyHistory(acc, relevant_history) ==
    IF relevant_history = <<>> THEN acc
    ELSE LET hist_row == Head(relevant_history)
             field_name == _get_field_name(hist_row)
             column == TrackerColumn(field_name)
         IN ApplyHistory(
                IF field_name = None
                THEN [acc EXCEPT !.skipped_changes =
                         Append(@, [reason |-> "Missing field column in history row",
                                    row_data |-> hist_row])]
                ELSE IF column \notin DOMAIN acc.working_row
                THEN [acc EXCEPT !.skipped_changes =
                         Append(@, [reason |-> "not present in tracker dataset",
                                    row_data |-> hist_row])]
                ELSE [acc EXCEPT !.working_row[column] = hist_row.Old_Value,
                                 !.applied_changes =
                                     Append(@, [field |-> field_name,
                                                current_value |-> acc.working_row[column],
                                                history_new_value |-> hist_row.New_Value,
                                                restored_value |-> hist_row.Old_Value])],
                Tail(relevant_history))

\* lines 217-311, relevant_history being what lines 256-261 select and sort
\* (the tracker names of the model carry no blanks to strip)
restore_tracker_state(current_df, names, relevant_history, tracker_name) ==
    LET tracker_rows == {i \in 1..Len(current_df) : names[i] = tracker_name}
    IN IF tracker_rows = {}
       THEN [raised |-> TRUE, before_row |-> <<>>, restored_row |-> <<>>,
             applied_changes |-> <<>>, skipped_changes |-> <<>>, history_rows_used |-> 0]
       ELSE LET base_row == current_df[Min(tracker_rows)]
                done == ApplyHistory([working_row |-> base_row, applied_changes |-> <<>>,
                                      skipped_changes |-> <<>>], relevant_history)
            IN [raised |-> FALSE,
                before_row |-> <<base_row>>,
                restored_row |-> <<done.working_row>>,
                applied_changes |-> done.applied_changes,
                skipped_changes |-> done.skipped_changes,
                history_rows_used |-> Len(relevant_history)]

\* the tracker names of the history file
HistoryTrackers == {"Alpha", "Beta", "Gamma"}

\* the history file of the session: one change of Alpha, two changes of Beta
\* made at one time (one of them to a field the table has no column for),
\* and a resize-map change of Gamma
SessionHistory ==
    <<HistoryRow("Alpha", <<2, 1>>, <<"Fields">>, NaN, fC, Join(<<fA, fB>>, CommaSp)),
      HistoryRow("Beta", <<1, 2>>, <<"Logic">>, NaN, NaN, <<"1">>),
      HistoryRow("Beta", <<1, 2>>, <<"Description">>, NaN, <<"text">>, <<"more">>),
      HistoryRow("Gamma", <<1, 1>>, <<"Resize", " ", "Map">>, NaN, NaN, fA)>>

\* cli.py 626, 643: the states of a tracker that can be chosen
StateOptions(tracker_name) ==
    Range(build_history_state_options(SessionHistory, tracker_name).options)

\* what restoring a tracker to a chosen state undoes
Histories(tracker_name, chosen_state_option) ==
    relevant_histories(SessionHistory, tracker_name, chosen_state_option.restore_to)

\* cli.py 647-671: the restore of the chosen tracker to the chosen state
RestoreCall(tracker_name_selected, relevant_history) ==
        LET result == restore_tracker_state(df_orig, Tracker.names, relevant_history,
                                            tracker_name_selected)
        IN /\ OperationStarts("restore")
           /\ UNCHANGED <<modified_csv, backup_csv, last_call, pc, main_df_is_None,
                          Tracker, load_result, audit_call, history>>
           /\ IF result.raised
              THEN \* lines 654-656: ValueError, back to the menu
                   UNCHANGED <<df_orig, restore_result, outcome>>
              ELSE IF ~Tracker.present
              THEN \* line 658: state.main_df['Tracker'] raises KeyError
                   /\ restore_result' = [made |-> TRUE, tracker_name |-> tracker_name_selected,
                                         before_row |-> result.before_row,
                                         restored_row |-> result.restored_row,
                                         written |-> FALSE]
                   /\ outcome' = "raised"
                   /\ UNCHANGED df_orig
              ELSE \* lines 658-666: every row of that name takes the restored
                   \* row's values; the summary and the restored row are written
                   /\ df_orig' = [i \in 1..Len(df_orig) |->
                                    IF Tracker.names[i] = tracker_name_selected
                                    THEN result.restored_row[1] ELSE df_orig[i]]
                   /\ restore_result' = [made |-> TRUE, tracker_name |-> tracker_name_selected,
                                         before_row |-> result.before_row,
                                         restored_row |-> result.restored_row,
                                         written |-> TRUE]
                   /\ outcome' = "written"

\* cli.py 355-791: a session from the first prompt on
InitSession ==
    /\ df_orig = <<>>
    /\ modified_csv = NoFile
    /\ backup_csv = NoFile
    /\ last_call = NoCall
    /\ outcome = "none"
    /\ pc = "initial_load"
    /\ main_df_is_None = TRUE
    /\ Tracker = [present |-> FALSE, names |-> <<>>]
    /\ chosen_action = "none"
    /\ load_result = NoLoad
    /\ restore_result = NoRestore
    /\ audit_call = NoAudit
    /\ dialog = NoDialog
    /\ history = NoHistory

\* cli.py 570-673: "restore"
Restore ==
    \E tracker_name_selected \in HistoryTrackers :
        \E chosen_state_option \in StateOptions(tracker_name_selected) :
            \E relevant_history \in Histories(tracker_name_selected, chosen_state_option) :
                /\ RestoreCall(tracker_name_selected, relevant_history)
                /\ UNCHANGED dialog

NextSession ==
    \/ InitialLoad
    \/ MenuLoad
    \/ ModifyRemove
    \/ ModifySwap
    \/ ModifyAdd
    \/ Audit
    \/ Restore
    \/ ReturnToMenu
    \/ Exit

SpecSession == InitSession /\ [][NextSession]_vars

\* ------------------------------------ cli.main_loop, the prompts of an operation
\* every variable but dialog
session_state ==
    <<df_orig, modified_csv, backup_csv, last_call, outcome, pc, main_df_is_None,
      Tracker, chosen_action, load_result, restore_result, audit_call, history>>

\* .ask() returned None (the user cancelled) or raised KeyboardInterrupt
Cancels == {"None", "KeyboardInterrupt"}

Asked(d, prompt, answer) ==
    [d EXCEPT !.asked = Append(@, [prompt |-> prompt, answer |-> answer])]

\* the next prompt waits, or the loop is back at the menu; nothing else changes
Goes(d) == dialog' = d /\ UNCHANGED session_state

ToMenu(d) == Goes([d EXCEPT !.at = "menu"])

Waiting(prompt) ==
    /\ pc = "menu"
    /\ outcome = "none"
    /\ dialog.at = prompt
    /\ Len(dialog.asked) < MaxPrompts

\* the ascending list of the row indices in S
IndexList(S) == CHOOSE sel \in Selections(Len(df_orig)) \cup {<<>>} : Range(sel) = S

\* cli.py 387-416: an operation with prompts is chosen at the menu
FirstPrompt(action) ==
    CASE action = "remove" -> "audit_path"
      [] action = "swap" -> "swap_method"
      [] action = "add" -> "add_fields"
      [] OTHER -> "history_path"

ChooseOperation ==
    \E action \in {"remove", "swap", "add", "restore"} :
        /\ pc = "menu"
        /\ outcome = "none"
        /\ dialog.at = "menu"
        /\ action \in main_menu_choices
        /\ ~main_df_is_None
        /\ chosen_action' = action
        /\ dialog' = [NoDialog EXCEPT !.at = FirstPrompt(action)]
        /\ UNCHANGED <<df_orig, modified_csv, backup_csv, last_call, outcome, pc,
                       main_df_is_None, Tracker, load_result, restore_result, audit_call, history>>

\* the removal plans an audit file parses to (cli.py 447-463); the empty
\* plan stands for a file nothing could be parsed from
DialogPlans ==
    {[isdict |-> TRUE, plan |-> [id \in {"T1"} |-> <<fA>>]],
     [isdict |-> TRUE, plan |-> [id \in {"T1", "T2"} |-> <<fB>>]],
     [isdict |-> TRUE, plan |-> <<>>]}

\* cli.py 443-463: the audit file is parsed
ParseAudit(d, plan) ==
    IF DOMAIN plan.plan = {} THEN ToMenu(d)
    ELSE Goes([d EXCEPT !.at = "select_trackers", !.removal_plan_from_audit = plan])

\* cli.py 420-441: "Path to Audit CSV (or directory):"
AnswerAuditPath ==
    \E answer \in Cancels \cup {"empty_dir", "dir", "file", "invalid"} :
        LET d == Asked(dialog, "audit_path", answer)
        IN /\ Waiting("audit_path")
           /\ CASE answer = "dir" -> Goes([d EXCEPT !.at = "audit_select"])
                [] answer = "file" -> \E plan \in DialogPlans : ParseAudit(d, plan)
                [] OTHER -> ToMenu(d)

\* cli.py 433-436: "Select audit file:"
AnswerAuditSelect ==
    \E answer \in Cancels \cup {"file"} :
        LET d == Asked(dialog, "audit_select", answer)
        IN /\ Waiting("audit_select")
           /\ IF answer = "file" THEN \E plan \in DialogPlans : ParseAudit(d, plan)
              ELSE ToMenu(d)

\* cli.py 734-747: the trackers a swap or an add would change are looked up
Identify(d) ==
    IF DOMAIN identify_modifications(df_orig, d.field_swap_map_cmd,
                                     d.fields_to_add_list_cmd) = {}
    THEN ToMenu(d)
    ELSE Goes([d EXCEPT !.at = "select_trackers"])

\* cli.py 504-505 and 553-555, after the pair entry has ended without
\* operation_flow_control being set
AfterPairEntry(d) ==
    IF d.field_swap_map_cmd = <<>> THEN ToMenu(d) ELSE Identify(d)

\* cli.py 468-477: "How to provide swap pairs?"
AnswerSwapMethod ==
    \E answer \in Cancels \cup {"cancel_swap", "manual", "csv"} :
        LET d == Asked(dialog, "swap_method", answer)
        IN /\ Waiting("swap_method")
           /\ CASE answer = "manual" -> Goes([d EXCEPT !.at = "swap_pair"])
                [] answer = "csv" -> Goes([d EXCEPT !.at = "swap_csv_path"])
                [] OTHER -> ToMenu(d)

\* the pairs typed at "Pair (blank to end):"
DialogPairs == {<<fA, fD>>, <<fB, fD>>, <<fA, fB>>}

\* cli.py 494-500: field_swap_map_cmd[old_f] = new_f
PutPair(field_swap_map_cmd, pair) ==
    IF \E i \in 1..Len(field_swap_map_cmd) : field_swap_map_cmd[i][1] = pair[1]
    THEN [i \in 1..Len(field_swap_map_cmd) |->
            IF field_swap_map_cmd[i][1] = pair[1] THEN pair ELSE field_swap_map_cmd[i]]
    ELSE Append(field_swap_map_cmd, pair)

\* cli.py 478-505: "Pair (blank to end):"
AnswerSwapPair ==
    \E answer \in Cancels \cup {"blank", "invalid", "pair"} :
        LET d == Asked(dialog, "swap_pair", answer)
        IN /\ Waiting("swap_pair")
           /\ CASE answer = "KeyboardInterrupt" ->
                     \* lines 483-485: break, operation_flow_control is not set
                     AfterPairEntry(d)
                [] answer = "None" ->
                     \* lines 489-491 set operation_flow_control and leave the
                     \* entry loop; the break of line 505 leaves the menu loop
                     /\ dialog' = [d EXCEPT !.at = "exited"]
                     /\ pc' = "ended"
                     /\ UNCHANGED <<df_orig, modified_csv, backup_csv, last_call, outcome,
                                    main_df_is_None, Tracker, chosen_action, load_result,
                                    restore_result, audit_call, history>>
                [] answer = "blank" -> AfterPairEntry(d)
                [] answer = "invalid" -> Goes(d)
                [] OTHER ->
                     \E pair \in DialogPairs :
                         /\ Len(PutPair(d.field_swap_map_cmd, pair)) <= MaxSwaps
                         /\ Goes([d EXCEPT !.field_swap_map_cmd = PutPair(@, pair)])

\* the maps load_swap_pairs_csv gives; the empty one stands for a failed load
DialogSwapMaps == {<<<<fA, fD>>>>, <<>>}

\* cli.py 544-552
LoadSwapCsv(d, loaded_map) ==
    IF loaded_map = <<>> THEN ToMenu(d)
    ELSE Identify([d EXCEPT !.field_swap_map_cmd = loaded_map])

\* cli.py 506-543: "Path to swap pairs CSV (or directory):"
AnswerSwapCsvPath ==
    \E answer \in Cancels \cup {"empty_dir", "dir", "file", "invalid"} :
        LET d == Asked(dialog, "swap_csv_path", answer)
        IN /\ Waiting("swap_csv_path")
           /\ CASE answer = "dir" -> Goes([d EXCEPT !.at = "swap_csv_select"])
                [] answer = "file" ->
                     \E loaded_map \in DialogSwapMaps : LoadSwapCsv(d, loaded_map)
                [] OTHER -> ToMenu(d)

\* cli.py 526-537: "Select swap CSV:"
AnswerSwapCsvSelect ==
    \E answer \in Cancels \cup {"file"} :
        LET d == Asked(dialog, "swap_csv_select", answer)
        IN /\ Waiting("swap_csv_select")
           /\ IF answer = "file"
              THEN \E loaded_map \in DialogSwapMaps : LoadSwapCsv(d, loaded_map)
              ELSE ToMenu(d)

\* cli.py 559-569: "Fields to add (comma-separated canonical API names):"
AnswerAddFields ==
    \E answer \in Cancels \cup {"blank", "fields"} :
        LET d == Asked(dialog, "add_fields", answer)
        IN /\ Waiting("add_fields")
           /\ IF answer = "fields"
              THEN \E add \in {<<fD>>, <<fA, fB>>} :
                       Identify([d EXCEPT !.fields_to_add_list_cmd = add])
              ELSE ToMenu(d)

\* cli.py 710-789: "Select trackers to modify", then the call of
\* modify_trackers when a tracker was selected
AnswerSelectTrackers ==
    \E answer \in Cancels \cup {"__ALL__", "some"} :
        LET d == Asked(dialog, "select_trackers", answer)
            offered ==
                IF chosen_action = "remove"
                THEN {i \in 1..Len(df_orig) :
                        df_orig[i].id \in DOMAIN d.removal_plan_from_audit.plan}
                ELSE DOMAIN identify_modifications(df_orig, d.field_swap_map_cmd,
                                                   d.fields_to_add_list_cmd)
        IN /\ Waiting("select_trackers")
           /\ IF answer \in Cancels THEN ToMenu(d)
              ELSE \E S \in IF answer = "__ALL__" THEN {offered} ELSE SUBSET offered :
                       IF S = {} THEN ToMenu(d)
                       ELSE /\ ModifyTrackers(chosen_action, IndexList(S),
                                              IF chosen_action = "remove"
                                              THEN d.removal_plan_from_audit
                                              ELSE NoCall.removal_instructions,
                                              d.field_swap_map_cmd,
                                              d.fields_to_add_list_cmd)
                            /\ dialog' = [d EXCEPT !.at = "menu"]

\* cli.py 572-608: "Path to tracker history CSV (or directory):", then the
\* history file is read
AnswerHistoryPath ==
    \E answer \in Cancels \cup {"empty_dir", "dir", "file", "unreadable", "invalid"} :
        LET d == Asked(dialog, "history_path", answer)
        IN /\ Waiting("history_path")
           /\ CASE answer = "dir" -> Goes([d EXCEPT !.at = "history_select"])
                [] answer = "file" -> Goes([d EXCEPT !.at = "tracker_name"])
                [] OTHER -> ToMenu(d)

\* cli.py 589-596: "Select history CSV file:", then the file is read
AnswerHistorySelect ==
    \E answer \in Cancels \cup {"file", "unreadable"} :
        LET d == Asked(dialog, "history_select", answer)
        IN /\ Waiting("history_select")
           /\ IF answer = "file" THEN Goes([d EXCEPT !.at = "tracker_name"])
              ELSE ToMenu(d)

\* cli.py 615-634: "Tracker to restore:"; a tracker without history states
\* sends the loop back to the menu
AnswerTrackerName ==
    \E answer \in Cancels \cup HistoryTrackers :
        LET d == Asked(dialog, "tracker_name", answer)
        IN /\ Waiting("tracker_name")
           /\ IF answer \in Cancels \/ StateOptions(answer) = {} THEN ToMenu(d)
              ELSE Goes([d EXCEPT !.at = "state_select", !.tracker_name_selected = answer])

\* ---- cli._prompt_restore_state_selection
\* the function returns ('return_to_menu', None); cli.py 644-645: continue
SelectionCancelled(d) ==
    ToMenu([d EXCEPT !.restore_selection =
                [operation_flow_control |-> "return_to_menu", chosen_state_option |-> <<>>]])

\* lines 303-313: "Select restore state (grouped by Modify Date):" (every
\* choice main_loop offers is a state option or <Cancel>, whose value is None)
AnswerStateSelect ==
    \E answer \in Cancels \cup {"option"} :
        LET d == Asked(dialog, "state_select", answer)
        IN /\ Waiting("state_select")
           /\ IF answer \in Cancels THEN SelectionCancelled(d)
              ELSE \E chosen_state_option \in StateOptions(d.tracker_name_selected) :
                       Goes([d EXCEPT !.at = "detail_confirm",
                                      !.restore_selection =
                                          [operation_flow_control |-> "asking",
                                           chosen_state_option |-> <<chosen_state_option>>]])

\* the bug of taking a cancelled confirmation for a "no"
ConfirmCancelledOnInterruptOnly(show_detail) == show_detail = "KeyboardInterrupt"

\* lines 315-328: the confirmation is cancelled by an interrupt or by None
ConfirmCancelled(show_detail) == show_detail \in Cancels

\* lines 315-328: "Show detailed change list?"
AnswerDetailConfirm ==
    \E show_detail \in Cancels \cup {"True", "False"} :
        LET d == Asked(dialog, "detail_confirm", show_detail)
        IN /\ Waiting("detail_confirm")
           /\ IF ConfirmCancelled(show_detail) THEN SelectionCancelled(d)
              ELSE Goes([d EXCEPT !.at = "apply_select"])

\* lines 330-349: "Apply this restore state?"; on "apply" the function
\* returns (None, chosen_state_option) and cli.py 647-671 restores
AnswerApply ==
    \E apply_choice \in Cancels \cup {"cancel", "reselect", "apply"} :
        LET d == Asked(dialog, "apply_select", apply_choice)
        IN /\ Waiting("apply_select")
           /\ CASE apply_choice = "reselect" -> Goes([d EXCEPT !.at = "state_select"])
                [] apply_choice = "apply" ->
                     /\ \E relevant_history \in
                               Histories(d.tracker_name_selected,
                                         d.restore_selection.chosen_state_option[1]) :
                            RestoreCall(d.tracker_name_selected, relevant_history)
                     /\ dialog' = [d EXCEPT !.at = "menu",
                                            !.restore_selection.operation_flow_control = "None"]
                [] OTHER -> SelectionCancelled(d)

\* a session on the table of two trackers named Alpha and Beta, every input
\* of an operation given prompt by prompt
InitDialog ==
    /\ df_orig = <<SessionRow1, SessionRow2>>
    /\ modified_csv = NoFile
    /\ backup_csv = NoFile
    /\ last_call = NoCall
    /\ outcome = "none"
    /\ pc = "menu"
    /\ main_df_is_None = FALSE
    /\ Tracker = [present |-> TRUE, names |-> <<"Alpha", "Beta">>]
    /\ chosen_action = "none"
    /\ load_result = [returns |-> "True", missing |-> {}]
    /\ restore_result = NoRestore
    /\ audit_call = NoAudit
    /\ dialog = NoDialog
    /\ history = NoHistory

NextDialog ==
    \/ ChooseOperation
    \/ AnswerAuditPath
    \/ AnswerAuditSelect
    \/ AnswerSwapMethod
    \/ AnswerSwapPair
    \/ AnswerSwapCsvPath
    \/ AnswerSwapCsvSelect
    \/ AnswerAddFields
    \/ AnswerSelectTrackers
    \/ AnswerHistoryPath
    \/ AnswerHistorySelect
    \/ AnswerTrackerName
    \/ AnswerStateSelect
    \/ AnswerDetailConfirm
    \/ AnswerApply
    \/ ReturnToMenu

SpecDialog == InitDialog /\ [][NextDialog]_vars

\* ------------------------------------------ cli._summarize_history_changes
\* lines 43-51
_is_empty(value) == value = None \/ value = NaN \/ Strip(value) = <<>>

\* lines 53-56
_clean_string(value) == IF value = None THEN <<>> ELSE Strip(str(value))

\* re.sub(r"'[^']*'|\"[^\"]*\"", " ", s): a quoted literal becomes a blank
RECURSIVE WithoutLiterals(_)
WithoutLiterals(s) ==
    IF s = <<>> THEN <<>>
    ELSE IF Head(s) \in {"'", "\""}
              /\ \E j \in 2..Len(s) : s[j] = Head(s)
    THEN LET close == Min({j \in 2..Len(s) : s[j] = Head(s)})
         IN <<" ">> \o WithoutLiterals(SubSeq(s, close + 1, Len(s)))
    ELSE <<Head(s)>> \o WithoutLiterals(Tail(s))

\* re.findall(r"[A-Za-z0-9_]+(?:__[cr])?(?:\.[A-Za-z0-9_]+(?:__[cr])?)*", s)
\* from place i on: the dotted paths of words
RECURSIVE FindTokensFrom(_, _)
FindTokensFrom(s, i) ==
    IF i > Len(s) THEN <<>>
    ELSE IF ~IsWord(s[i]) THEN FindTokensFrom(s, i + 1)
    ELSE LET Dotted(e) == \A k \in (i + 1)..e :
                              IF (k - i) % 2 = 1 THEN s[k] = "." ELSE IsWord(s[k])
             end == Max({e \in i..Len(s) : (e - i) % 2 = 0 /\ Dotted(e)})
         IN <<SubSeq(s, i, end)>> \o FindTokensFrom(s, end + 1)

\* re.split(r"[\s,;|\n]+", s), without the empty pieces
RECURSIVE SplitOnDelimiters(_)
SplitOnDelimiters(s) ==
    LET IsDelimiter(t) == t \in WS \cup {","}
    IN IF s = <<>> THEN <<>>
       ELSE IF IsDelimiter(Head(s)) THEN SplitOnDelimiters(Tail(s))
       ELSE LET end == Min({j \in 1..Len(s) : j = Len(s) \/ IsDelimiter(s[j + 1])})
            IN <<SubSeq(s, 1, end)>> \o SplitOnDelimiters(SubSeq(s, end + 1, Len(s)))

\* lines 58-89
_extract_field_tokens(value) ==
    LET raw == _clean_string(value)
        IsNoBracket(t) == t \notin {"[", "]"}
        normalized == SelectSeq(raw, IsNoBracket)
        unique_tokens == FirstOccurrences(FindTokensFrom(WithoutLiterals(normalized), 1))
        \* re.fullmatch(r"[A-Za-z0-9_\.]+(?:__[cr])?", segment)
        IsName(segment) == \A k \in 1..Len(segment) : IsWord(segment[k]) \/ segment[k] = "."
    IN IF raw = <<>> THEN <<>>
       ELSE IF unique_tokens # <<>> THEN unique_tokens
       ELSE FirstOccurrences(SelectSeq(SplitOnDelimiters(normalized), IsName))

\* lines 91-96
_diff_field_tokens(old_val, new_val) ==
    LET old_tokens == _extract_field_tokens(old_val)
        new_tokens == _extract_field_tokens(new_val)
        NotOld(tok) == tok \notin Range(old_tokens)
        NotNew(tok) == tok \notin Range(new_tokens)
    IN [added |-> SelectSeq(new_tokens, NotOld), removed |-> SelectSeq(old_tokens, NotNew)]

\* line 37
collapse_threshold == 5

\* lines 143-145
_append_unique(collection, value) ==
    IF value \in Range(collection) THEN collection ELSE Append(collection, value)

\* lines 156-160: "<field> added: a, b" or, collapsed, "<field> added: 6
\* fields (expand to view)"
_format_tokens(field_name, tokens, action, expanded) ==
    [head |-> field_name, says |-> action,
     tokens |-> IF expanded \/ Len(tokens) <= collapse_threshold THEN tokens ELSE <<>>,
     count |-> IF expanded \/ Len(tokens) <= collapse_threshold THEN 0 ELSE Len(tokens)]

\* a summary line that lists no tokens
Line(head, says) == [head |-> head, says |-> says, tokens |-> <<>>, count |-> 0]

\* line 148: the field name of a change
ChangeFieldName(change) ==
    IF Strip(str(change.field)) = <<>> THEN UnknownField ELSE Strip(str(change.field))

\* lines 153-195: a change of Fields or Query, diff being its added and
\* removed tokens and display_tokens the tokens of both values
FieldTokensChange(acc, field_name, diff, both_empty, display_tokens, expanded) ==
    LET with_added == IF diff.added # <<>>
                      THEN _append_unique(acc.contextual_field_changes,
                                          _format_tokens(field_name, diff.added, "added", expanded))
                      ELSE acc.contextual_field_changes
        with_removed == IF diff.removed # <<>>
                        THEN _append_unique(with_added,
                                            _format_tokens(field_name, diff.removed, "removed", expanded))
                        ELSE with_added
        no_token_diff == diff.added = <<>> /\ diff.removed = <<>> /\ ~both_empty
    IN IF ~no_token_diff
       THEN [acc EXCEPT !.contextual_field_changes = with_removed]
       ELSE IF expanded
       THEN [acc EXCEPT !.contextual_field_changes =
                _append_unique(with_removed,
                               [head |-> field_name, says |-> "values updated",
                                tokens |-> display_tokens, count |-> 0])]
       ELSE [acc EXCEPT !.contextual_field_changes = with_removed,
                        !.other_changes =
                            _append_unique(@, Line(field_name,
                                                   "values changed (expand to view details)"))]

\* lines 197-205: a change of another field (_describe_change's excerpt of
\* the difference is not spelled out: the line says whether the texts differ)
OtherChange(acc, field_name, old_empty, new_empty, same_text) ==
    IF old_empty /\ ~new_empty
    THEN [acc EXCEPT !.added_fields = Append(@, field_name)]
    ELSE IF ~old_empty /\ new_empty
    THEN [acc EXCEPT !.removed_fields = Append(@, field_name)]
    ELSE [acc EXCEPT !.other_changes =
             Append(@, Line(field_name,
                            IF same_text THEN "no change recorded" ELSE "changed"))]

\* lines 147-205: one change of the loop
SummarizeChange(acc, change, expanded) ==
    IF LowerSeq(ChangeFieldName(change)) \in {<<"fields">>, <<"query">>}
    THEN FieldTokensChange(acc, ChangeFieldName(change),
                           _diff_field_tokens(change.old_value, change.new_value),
                           _is_empty(change.old_value) /\ _is_empty(change.new_value),
                           FirstOccurrences(_extract_field_tokens(change.old_value)
                                              \o _extract_field_tokens(change.new_value)),
                           expanded)
    ELSE OtherChange(acc, ChangeFieldName(change),
                     _is_empty(change.old_value), _is_empty(change.new_value),
                     _clean_string(change.old_value) = _clean_string(change.new_value))

RECURSIVE SummarizeLoop(_, _, _)
SummarizeLoop(acc, changes, expanded) ==
    IF changes = <<>> THEN acc
    ELSE SummarizeLoop(SummarizeChange(acc, Head(changes), expanded), Tail(changes), expanded)

\* lines 209-214
_format_field_list(unique_items, label, expanded) ==
    [head |-> <<"Fields">>, says |-> label,
     tokens |-> IF expanded \/ Len(unique_items) <= collapse_threshold
                THEN unique_items ELSE <<>>,
     count |-> IF expanded \/ Len(unique_items) <= collapse_threshold
               THEN 0 ELSE Len(unique_items)]

\* lines 207-221: the lines in the order they are printed
SummaryLines(acc, expanded) ==
    (IF acc.added_fields # <<>>
     THEN <<_format_field_list(FirstOccurrences(acc.added_fields), "added", expanded)>>
     ELSE <<>>)
    \o (IF acc.removed_fields # <<>>
        THEN <<_format_field_list(FirstOccurrences(acc.removed_fields), "removed", expanded)>>
        ELSE <<>>)
    \o acc.contextual_field_changes \o acc.other_changes

\* lines 223-228: line.lower().startswith(("fields", "query")); a field name
\* of the model starts with one of the two only if it is one of the two
FieldFocus(summary_lines, field_focus, expanded) ==
    IF expanded /\ field_focus # <<>> THEN field_focus ELSE summary_lines

InFocus(line) == Lower(line.head[1]) \in {"fields", "query"}

\* lines 34-251: the lines of the summary in order; no line at all is the
\* text "No change details recorded" (wrapping and bullets are left out)
_summarize_history_changes(changes, expanded) ==
    LET summary_lines ==
            SummaryLines(SummarizeLoop([added_fields |-> <<>>, removed_fields |-> <<>>,
                                        other_changes |-> <<>>,
                                        contextual_field_changes |-> <<>>],
                                       changes, expanded),
                         expanded)
    IN IF expanded
       THEN FieldFocus(summary_lines, SelectSeq(summary_lines, InFocus), expanded)
       ELSE summary_lines

\* ---- history exports of 1..MaxHistoryRows rows, and what the restore
\* branch of main_loop computes from one
HistoryRows ==
    {HistoryRow("Alpha", <<1, 1>>, <<"Resize", " ", "Map">>, NaN, <<"old">>, <<"new">>),
     HistoryRow("Alpha", <<1, 1>>, <<"Resize", " ", "Map", " ", "Entries">>, NaN, <<"old">>, <<"new">>),
     HistoryRow("Alpha", <<1, 1>>, <<"Status">>, NaN, <<"Pending">>, <<"Approved">>),
     HistoryRow("Alpha", <<2, 1>>,
                <<"Description", ",", " ", "Resize", " ", "Map", " ", "Entries">>, NaN,
                <<"old">>, <<"new">>),
     HistoryRow("Alpha", <<1, 1>>, <<"Fields">>, NaN,
                Join(<<fA, fB>>, CommaSp), Join(<<fB, fA>>, CommaSp)),
     HistoryRow("Alpha", <<2, 1>>, <<"Fields">>, NaN,
                Join(<<fA, fB>>, CommaSp), Join(<<fA, fB, fC>>, CommaSp)),
     HistoryRow("Alpha", <<2, 1>>, <<"Fields">>, NaN, fD, fA),
     HistoryRow("Alpha", <<1, 2>>, <<"Query">>, NaN,
                Query(<<fA, fB>>, <<>>, <<>>), Query(<<fB, fA>>, <<>>, <<>>)),
     HistoryRow("Alpha", <<2, 1>>, NaN, <<"Logic">>, <<"1", " ", "AND", " ", "2">>, <<"1">>),
     HistoryRow("Alpha", <<1, 1>>, NaN, NaN, <<"old">>, <<"new">>),
     HistoryRow("Alpha", NoDate, <<"Fields">>, NaN, fC, fA),
     HistoryRow("Beta", <<1, 1>>, <<"Logic">>, NaN, NaN, <<"1">>),
     HistoryRow("Gamma", <<1, 1>>, <<"Fields">>, NaN, fC, fA)}

HistoryFiles ==
    UNION {[1..n -> HistoryRows] : n \in 1..MaxHistoryRows}

\* cli.py 626: the state options of a tracker of the export
BuildOptions ==
    \E tracker_name \in HistoryTrackers :
        /\ history.history_df # <<>>
        /\ ~history.built
        /\ history' = [history EXCEPT
                          !.built = TRUE,
                          !.tracker_name = tracker_name,
                          !.options = build_history_state_options(history.history_df,
                                                                  tracker_name).options]
        /\ UNCHANGED <<df_orig, modified_csv, backup_csv, last_call, outcome, pc,
                       main_df_is_None, Tracker, chosen_action, load_result,
                       restore_result, audit_call, dialog>>

\* cli.py 262-267 and 322-328: the summary of a state option, collapsed in
\* the title of its choice and expanded on request
Summarize ==
    \E k \in 1..Len(history.options), expanded \in BOOLEAN :
        /\ history.built
        /\ history.summarized = <<>>
        /\ history' = [history EXCEPT
                          !.summarized =
                              <<[option |-> k, expanded |-> expanded,
                                 summary |-> _summarize_history_changes(
                                                 history.options[k].changes, expanded)]>>]
        /\ UNCHANGED <<df_orig, modified_csv, backup_csv, last_call, outcome, pc,
                       main_df_is_None, Tracker, chosen_action, load_result,
                       restore_result, audit_call, dialog>>

\* cli.py 647-652: restore_tracker_state for a state option
RestoreState ==
    \E k \in 1..Len(history.options) :
        \E relevant_history \in relevant_histories(history.history_df, history.tracker_name,
                                                   history.options[k].restore_to) :
            /\ history.built
            /\ history.restored = <<>>
            /\ history' = [history EXCEPT
                              !.restored =
                                  <<[restore_to |-> history.options[k].restore_to,
                                     relevant_history |-> relevant_history,
                                     result |-> restore_tracker_state(
                                                    df_orig, Tracker.names, relevant_history,
                                                    history.tracker_name)]>>]
            /\ UNCHANGED <<df_orig, modified_csv, backup_csv, last_call, outcome, pc,
                           main_df_is_None, Tracker, chosen_action, load_result,
                           restore_result, audit_call, dialog>>

InitHistory ==
    /\ df_orig = <<SessionRow1, SessionRow2>>
    /\ modified_csv = NoFile
    /\ backup_csv = NoFile
    /\ last_call = NoCall
    /\ outcome = "none"
    /\ pc = "menu"
    /\ main_df_is_None = FALSE
    /\ Tracker = [present |-> TRUE, names |-> <<"Alpha", "Beta">>]
    /\ chosen_action = "restore"
    /\ load_result = [returns |-> "True", missing |-> {}]
    /\ restore_result = NoRestore
    /\ audit_call = NoAudit
    /\ dialog = NoDialog
    /\ \E history_df \in HistoryFiles : history = [NoHistory EXCEPT !.history_df = history_df]

NextHistory ==
    \/ BuildOptions
    \/ Summarize
    \/ RestoreState

SpecHistory == InitHistory /\ [][NextHistory]_vars

\* ---- tables for the path search: one row whose Fields is a comma list of
\* 1..MaxItems items, every other text cell empty and no filter condition
LocatorItems ==
    {fA, <<"XA__c">>, <<"A__c2">>, fRelA, <<"Own__r", ".", "Rel__r", ".", "A__c">>,
     <<"Rel__x", ".", "A__c">>, <<"Rel__r", ".", "B__c">>}

LocatorTexts ==
    UNION {{Join(items, CommaSp) : items \in [1..n -> LocatorItems]} : n \in 1..MaxItems}

LocatorTables ==
    {<<Row("T1", text, json_dumps(<<>>), NaN, NaN, NaN, NaN, NaN, NaN)>> : text \in LocatorTexts}

InitLocator ==
    /\ df_orig \in LocatorTables
    /\ AtMenu

SpecLocator == InitLocator /\ [][NextAudit]_vars

\* ================================================================ claims
\* the k-th selected row before and after the latest call, and the removal
\* list the call had for it
Before(k) == backup_csv.rows[k]

After(k) == modified_csv.rows[k]

Processed == IF outcome = "written" THEN 1..Len(backup_csv.rows) ELSE {}

RowRemoveList(k) ==
    EffectiveRemoveList(Before(k), last_call.removal_instructions, last_call.swap_map_cmd)

\* the positions a Logic text mentions
Positions(logic) == {ToInt(t) : t \in LogicDigits(logic)}

\* a Filters value that is an array of n condition objects, with a Logic that
\* mentions exactly 1..n
ConditionsMatchLogic(row) ==
    /\ row.Filters.kind = "list"
    /\ \A i \in 1..Len(row.Filters.conds) : row.Filters.conds[i].isdict
    /\ Positions(row.Logic) = 1..Len(row.Filters.conds)

\* C1: after the removal step, for a row whose Filters held n conditions and
\* whose Logic mentioned exactly 1..n, the Logic mentions exactly 1..k, k the
\* number of conditions left in Filters.
C1_PositionsContiguous ==
    \A k \in Processed :
        (RowRemoveList(k) # <<>> /\ ConditionsMatchLogic(Before(k)))
        => Positions(After(k).Logic) = 1..Len(After(k).Filters.conds)

\* three conditions, the first or second removed, the third renumbered to 2
C1_Witness ==
    \E k \in Processed :
        /\ RowRemoveList(k) # <<>>
        /\ ConditionsMatchLogic(Before(k))
        /\ Len(Before(k).Filters.conds) = 3
        /\ Len(After(k).Filters.conds) = 2
        /\ After(k).Filters.conds[2] = Before(k).Filters.conds[3]
        /\ Positions(After(k).Logic) = {1, 2}

RowIds(rows) == [k \in 1..Len(rows) |-> rows[k].id]

\* C2: a modify_trackers call leaves df_orig as it was; the backup file holds
\* exactly the selected rows with the values they had before the call, and
\* the modified file holds exactly the selected rows.
C2_FrameKept ==
    [][(outcome = "none" /\ outcome' # "none") =>
          /\ df_orig' = df_orig
          /\ outcome' = "written" =>
                /\ backup_csv'.rows = to_csv(Loc(df_orig, last_call'.selected))
                /\ RowIds(modified_csv'.rows) = RowIds(Loc(df_orig, last_call'.selected))]_vars

\* a call that selected one row of a two-row table and changed it
C2_Witness ==
    /\ outcome = "written"
    /\ Len(df_orig) = 2
    /\ Len(last_call.selected) = 1
    /\ modified_csv.rows # backup_csv.rows

\* the entries of a comma-separated list
Entries(text) == Range(CommaItems(text))

\* C3: after a removal no removed reference is an entry of Fields or of
\* OrderBy(Long) any more, for removal lists of one and of several references.
C3_RemovedEntriesGone ==
    \A k \in Processed :
        last_call.op = "remove" =>
            \A i \in 1..Len(RowRemoveList(k)) :
                /\ RowRemoveList(k)[i] \notin Entries(After(k).Fields)
                /\ RowRemoveList(k)[i] \notin Entries(After(k).OrderBy)

\* the condition text of a query's WHERE clause, <<>> when it has none
WhereGroup(q, m) == IF m.ok THEN SubSeq(q, m.c, m.p - 1) ELSE <<>>

WhereClause(q) == WhereGroup(q, WhereMatch(q))

\* as many "(" as ")"
ParensEven(text) == CountTok(text, "(") = CountTok(text, ")")

\* properly nested parentheses
ParensBalanced(text) ==
    /\ ParensEven(text)
    /\ \A i \in 1..Len(text) :
          CountTok(SubSeq(text, 1, i), ")") <= CountTok(SubSeq(text, 1, i), "(")

\* C4: when the WHERE clause of a query has balanced parentheses and the
\* removal leaves a WHERE clause, the WHERE clause of the query update_query
\* returns has as many "(" as ")".
C4_WhereParensEven ==
    \A k \in Processed :
        (/\ last_call.op = "remove"
         /\ RowRemoveList(k) # <<>>
         /\ ParensBalanced(WhereClause(Before(k).Query))
         /\ WhereClause(After(k).Query) # <<>>)
        => ParensEven(WhereClause(After(k).Query))

TextColumns == {"Fields", "Logic", "Query", "Formatting", "OrderBy", "ResizeMap", "LabelMap"}

\* a word-bounded occurrence of ref in the Filters value: in the field of a
\* condition of the array, or in the raw text when it is not valid JSON
FiltersMention(filters, ref) ==
    IF filters.kind = "malformed" THEN SearchWord(filters.raw, ref)
    ELSE \E i \in 1..Len(filters.conds) : SearchWord(GetField(filters.conds[i]), ref)

RowMentions(row, ref) ==
    FiltersMention(row.Filters, ref) \/ \E col \in TextColumns : SearchWord(row[col], ref)

\* C5: in a row where old_reference occurs and new_reference occurs nowhere,
\* after the swap no column contains old_reference and every column that
\* contained it contains new_reference.
C5_SwapReachesEveryColumn ==
    \A k \in Processed :
        (last_call.op = "swap" /\ Len(last_call.swap_map_cmd) = 1) =>
            LET old == last_call.swap_map_cmd[1][1]
                new == last_call.swap_map_cmd[1][2]
            IN (RowMentions(Before(k), old) /\ ~RowMentions(Before(k), new))
               => /\ ~RowMentions(After(k), old)
                  /\ FiltersMention(Before(k).Filters, old)
                        => FiltersMention(After(k).Filters, new)
                  /\ \A col \in TextColumns :
                        SearchWord(Before(k)[col], old) => SearchWord(After(k)[col], new)

\* new_reference is in the row: the field of a condition of the Filters
\* array, or a word-bounded occurrence in Fields
NewPresent(row, new) ==
    \/ /\ row.Filters.kind = "list"
       /\ \E i \in 1..Len(row.Filters.conds) :
             /\ row.Filters.conds[i].isdict
             /\ row.Filters.conds[i].fkind = "str"
             /\ row.Filters.conds[i].field = new
    \/ SearchWord(row.Fields, new)

Occurrences(text, ref) == Cardinality({i \in 1..Len(text) : MatchAt(text, ref, i)})

FilterFieldCount(filters, ref) ==
    Cardinality({i \in 1..Len(filters.conds) : GetField(filters.conds[i]) = ref})

Olds(swap_map_cmd) == [i \in 1..Len(swap_map_cmd) |-> swap_map_cmd[i][1]]

\* the row a remove call with the given removal list makes of row
RemovalOf(row, remove_list) ==
    ProcessRow(row, [isdict |-> TRUE, plan |-> [id \in {row.id} |-> remove_list]],
               <<>>, <<>>)

\* C6: when the new reference of every pair of a swap is already in the row,
\* the swap puts no new reference anywhere and the row it leaves is the row
\* that removing the old references leaves.
C6_SwapDegradesToRemoval ==
    \A k \in Processed :
        (/\ last_call.op = "swap"
         /\ \A i \in 1..Len(last_call.swap_map_cmd) :
               NewPresent(Before(k), last_call.swap_map_cmd[i][2]))
        => /\ After(k) = RemovalOf(Before(k), Olds(last_call.swap_map_cmd))
           /\ \A i \in 1..Len(last_call.swap_map_cmd) :
                 /\ FilterFieldCount(After(k).Filters, last_call.swap_map_cmd[i][2])
                       <= FilterFieldCount(Before(k).Filters, last_call.swap_map_cmd[i][2])
                 /\ \A col \in TextColumns :
                       Occurrences(After(k)[col], last_call.swap_map_cmd[i][2])
                          <= Occurrences(Before(k)[col], last_call.swap_map_cmd[i][2])

\* a one-pair swap whose new reference is the field of a filter condition and
\* not in Fields; the row lost the old reference
C6_Witness ==
    \E k \in Processed :
        /\ last_call.op = "swap"
        /\ Len(last_call.swap_map_cmd) = 1
        /\ NewPresent(Before(k), last_call.swap_map_cmd[1][2])
        /\ ~SearchWord(Before(k).Fields, last_call.swap_map_cmd[1][2])
        /\ SearchWord(Before(k).Fields, last_call.swap_map_cmd[1][1])
        /\ ~SearchWord(After(k).Fields, last_call.swap_map_cmd[1][1])

\* C7: when exactly one filter condition survives a removal, the Logic is
\* "1", whatever operators and parentheses it had before.
C7_SingleSurvivor ==
    \A k \in Processed :
        (/\ RowRemoveList(k) # <<>>
         /\ ConditionsMatchLogic(Before(k))
         /\ Len(After(k).Filters.conds) = 1)
        => After(k).Logic = <<"1">>

\* three conditions under a parenthesised Logic, one of them left
C7_Witness ==
    \E k \in Processed :
        /\ RowRemoveList(k) # <<>>
        /\ ConditionsMatchLogic(Before(k))
        /\ Len(Before(k).Filters.conds) = 3
        /\ "(" \in Range(Before(k).Logic)
        /\ Len(After(k).Filters.conds) = 1
        /\ After(k).Logic = <<"1">>

\* C8: a row whose Fields and OrderBy(Long) lists have no duplicate entries
\* still has none in either list after a remove, swap or add, swap maps of
\* several pairs included.
C8_NoDuplicateEntries ==
    \A k \in Processed :
        (Distinct(CommaItems(Before(k).Fields)) /\ Distinct(CommaItems(Before(k).OrderBy)))
        => (Distinct(CommaItems(After(k).Fields)) /\ Distinct(CommaItems(After(k).OrderBy)))

\* the canonical name of a reference: the last segment of its dotted path
CanonicalKey(ref) == Last(Segments(ref))

\* the key of a map entry: the text before its first ':' or '='
EntryKey(item) ==
    Strip(SubSeq(item, 1, Min({i \in 1..Len(item) : item[i] \in {":", "="}}
                               \cup {Len(item) + 1}) - 1))

\* the entries of a map whose key is none of the canonical names, in order
MapWithout(text, remove_list) ==
    LET Kept(item) == \A i \in 1..Len(remove_list) :
                          EntryKey(item) # CanonicalKey(remove_list[i])
    IN SelectSeq(CommaItems(text), Kept)

\* C9: after a removal ResizeMap and Label Map have no entry keyed by the
\* canonical name of a removed reference (bare or dotted; Label Map written
\* with ':' or with '='), and their other entries are kept in order.
C9_MapEntriesGone ==
    \A k \in Processed :
        last_call.op = "remove" =>
            /\ CommaItems(After(k).ResizeMap) = MapWithout(Before(k).ResizeMap, RowRemoveList(k))
            /\ CommaItems(After(k).LabelMap) = MapWithout(Before(k).LabelMap, RowRemoveList(k))

\* the rule lists a Formatting cell of the tables can hold
FormattingRuleLists ==
    LET Rules == {Rule(f, c) : f \in {fA, fB, fRelA}, c \in {"red", "blue"}}
    IN UNION {[1..n -> Rules] : n \in 0..2}

\* the Formatting text is a JSON array of rule objects
IsRuleArray(text) ==
    StartsWith(text, <<"[">>) /\ \E rules \in FormattingRuleLists : FormattingJson(rules) = text

\* json.loads of such a text
RulesOf(text) == CHOOSE rules \in FormattingRuleLists : FormattingJson(rules) = text

\* the rules whose filters sub-list has no condition on a removed reference
RulesWithout(rules, remove_list) ==
    LET Kept(rule) == rule.field \notin Range(remove_list)
    IN SelectSeq(rules, Kept)

\* C10: when Formatting is a JSON array of rule objects, a removal drops the
\* rules whose filters sub-list has a condition on a removed reference and
\* keeps the other rules unchanged and in order.
C10_FormattingRulesDropped ==
    \A k \in Processed :
        (last_call.op = "remove" /\ IsRuleArray(Before(k).Formatting))
        => /\ IsRuleArray(After(k).Formatting)
           /\ RulesOf(After(k).Formatting)
                 = RulesWithout(RulesOf(Before(k).Formatting), RowRemoveList(k))

\* the row's swap pairs that stay swaps, and the row as the loop body has it
\* after the removal step and the first j of those pairs
RowSwaps(k) == EffectiveSwapMap(Before(k), last_call.swap_map_cmd)

AfterRemoval(k) ==
    IF RowRemoveList(k) = <<>> THEN Before(k) ELSE RemoveStep(Before(k), RowRemoveList(k))

AfterSwaps(k, j) == SwapStep(AfterRemoval(k), SubSeq(RowSwaps(k), 1, j))

\* a condition object whose field is ref
IsOn(c, ref) == c.isdict /\ c.fkind = "str" /\ c.field = ref

\* post is pre with the conditions on old moved to new: as many conditions, in
\* the same order, the others untouched; Relabelled(c, d) relates a moved
\* condition c to what it became
SwappedConds(pre, post, old, new, Relabelled(_, _)) ==
    /\ post.kind = "list"
    /\ Len(post.conds) = Len(pre.conds)
    /\ \A i \in 1..Len(pre.conds) :
          IF IsOn(pre.conds[i], old)
          THEN IsOn(post.conds[i], new) /\ Relabelled(pre.conds[i], post.conds[i])
          ELSE post.conds[i] = pre.conds[i]

\* label and sobject are those of the new reference
Recomputed(c, d, new, base) ==
    /\ d.label = generate_sitetracker_filter_label(new)
    /\ d.sobject = get_sitetracker_filter_sobject(new, base)

\* label and sobject are those of the new reference where the condition has
\* the key, and a key it lacks is not added
RecomputedWherePresent(c, d, new, base) ==
    /\ d.label = IF c.label = NoKey THEN NoKey ELSE generate_sitetracker_filter_label(new)
    /\ d.sobject = IF c.sobject = NoKey THEN NoKey
                   ELSE get_sitetracker_filter_sobject(new, base)

RemovedPositions(row, remove_list) ==
    RemoveFilters(row.Filters, ContextualPaths(row, remove_list)).removed

\* C12: when every position the Logic mentions is the position of a removed
\* condition, the Logic after the removal is the empty string, for Logic
\* expressions with and without parentheses.
C12_AllRemovedGivesEmpty ==
    \A k \in Processed :
        (/\ RowRemoveList(k) # <<>>
         /\ ConditionsMatchLogic(Before(k))
         /\ Positions(Before(k).Logic) \subseteq RemovedPositions(Before(k), RowRemoveList(k)))
        => After(k).Logic = <<>>

\* the row an Add of the latest call's names makes of row
AddedAgain(row) == AddStep(row, last_call.add_list_cmd)

\* the names of the latest call's Add that are entries of the row's Fields
NamesPresent(row) ==
    LET Present(name) == name \in Entries(row.Fields)
    IN SelectSeq(last_call.add_list_cmd, Present)

\* C13: adding names that are all entries of Fields already leaves the
\* entries of Fields as they are, in the same order (for the row as loaded
\* and for the row after the Add), and applying the Add a second time gives
\* the Fields the first application gave.
C13_AddIdempotent ==
    \A k \in Processed :
        last_call.op = "add" =>
            /\ CommaItems(AddStep(Before(k), NamesPresent(Before(k))).Fields)
                  = CommaItems(Before(k).Fields)
            /\ Range(last_call.add_list_cmd) \subseteq Entries(After(k).Fields)
            /\ CommaItems(AddedAgain(After(k)).Fields) = CommaItems(After(k).Fields)
            /\ AddedAgain(After(k)).Fields = After(k).Fields

\* an Add of a name the row had and a name it lacked: the row grew by one
\* entry, and all the names are entries now
C13_Witness ==
    \E k \in Processed :
        /\ last_call.op = "add"
        /\ Range(last_call.add_list_cmd) \cap Entries(Before(k).Fields) # {}
        /\ Len(CommaItems(After(k).Fields)) = Len(CommaItems(Before(k).Fields)) + 1
        /\ Range(last_call.add_list_cmd) \subseteq Entries(After(k).Fields)

\* C14: a modify_trackers call never aborts, whatever the Filters and
\* Formatting values of the selected rows (malformed JSON, a value that is
\* not a list, a condition whose 'field' is not a string): it processes every
\* selected row and writes both output files.
C14_BadJsonNeverAborts ==
    /\ outcome # "raised"
    /\ last_call.op # "none" =>
          /\ modified_csv.written /\ backup_csv.written
          /\ Len(modified_csv.rows) = Len(last_call.selected)

\* the references the latest call names for a row: those of its removal
\* list, or the old references of the swap map
NamedReferences(row) ==
    IF last_call.op = "remove"
    THEN IF row.id \in DOMAIN last_call.removal_instructions.plan
         THEN Range(last_call.removal_instructions.plan[row.id]) ELSE {}
    ELSE Range(Olds(last_call.swap_map_cmd))

\* C15: when none of the references a remove or swap names occurs anywhere
\* in a selected row (not even the final segment of its path), every column
\* of the row has the value it had before the call.
C15_AbsentReferenceNoOp ==
    \A k \in Processed :
        (/\ last_call.op \in {"remove", "swap"}
         /\ \A ref \in NamedReferences(Before(k)) :
               ~RowMentions(Before(k), CanonicalKey(ref)))
        => After(k) = Before(k)

\* text with the pairs of swaps substituted one after the other, each a
\* word-bounded replacement
RECURSIVE SwapTextAll(_, _)
SwapTextAll(text, swaps) ==
    IF swaps = <<>> THEN text
    ELSE SwapTextAll(swap_field_in_text(text, Head(swaps)[1], Head(swaps)[2]), Tail(swaps))

\* C16: after a swap on a row whose Filters text is not valid JSON, the
\* Filters text is the raw text with old_reference replaced by new_reference
\* at word boundaries, so that old_reference is no longer in it, and the call
\* completes.
C16_MalformedFiltersTextSwap ==
    \A k \in Processed :
        (/\ last_call.op = "swap"
         /\ Before(k).Filters.kind = "malformed"
         /\ RowSwaps(k) # <<>>)
        => /\ After(k).Filters.kind = "malformed"
           /\ After(k).Filters.raw = SwapTextAll(Before(k).Filters.raw, RowSwaps(k))
           /\ Len(RowSwaps(k)) = 1 => ~SearchWord(After(k).Filters.raw, RowSwaps(k)[1][1])

\* the row of the loaded table that is the k-th selected row
FrameRow(k) == df_orig[last_call.selected[k]]

\* the columns whose written value differs from the value the row had
ChangedColumns(k) ==
    {col \in TextColumnNames \cup {"Filters"} : After(k)[col] # Before(k)[col]}

\* C19: for a row selected with a swap map, the columns identify_modifications
\* reports for the row are exactly the columns whose value modify_trackers
\* changes.
C19_PreviewMatchesEdit ==
    \A k \in Processed :
        last_call.op = "swap" =>
            modified_cols(FrameRow(k), last_call.swap_map_cmd, <<>>) = ChangedColumns(k)

\* the row indices of the entries the detailed audit of the menu returned
AuditedIndices ==
    [k \in 1..Len(audit_call.audit_data_rows) |-> audit_call.audit_data_rows[k].Index]

\* C20: for the table and the list of names of an audit, master_audit with
\* detailed_report=False returns exactly the indices, in the same order, of
\* the rows the detailed audit made an entry for (and raises exactly when the
\* detailed audit raises).
C20_ShortAuditSameRows ==
    chosen_action = "audit" =>
        LET short == master_audit(df_orig, audit_call.canonical_fields, FALSE)
        IN /\ short.raised = (outcome = "raised")
           /\ short.returns = AuditedIndices

\* an audit of two names over two rows: one row holds both names (the short
\* mode stops after the first), the other holds neither
C20_Witness ==
    /\ chosen_action = "audit"
    /\ outcome = "written"
    /\ Len(df_orig) = 2
    /\ Len(audit_call.canonical_fields) = 2
    /\ Len(audit_call.audit_data_rows) = 1
    /\ {e.field : e \in audit_call.audit_data_rows[1].found}
         = Range(audit_call.canonical_fields)

\* the operations of the menu that work on the loaded table
Operations == {"remove", "swap", "add", "audit", "restore"}

\* a row as a snapshot file holds it
AsWritten(row) == to_csv(<<row>>)[1]

\* C17: a step of an operation (remove, swap, add, audit, restore) alters a
\* row of state.main_df only if the row as it was is among the rows the
\* operation took a snapshot of (the backup frame of modify_trackers, the
\* before_row of the restore).
C17_NoChangeWithoutSnapshot ==
    [][(pc = "menu" /\ chosen_action' \in Operations) =>
          \A i \in 1..Len(df_orig) :
              df_orig'[i] # df_orig[i] =>
                  AsWritten(df_orig[i]) \in
                      Range(backup_csv'.rows) \cup Range(to_csv(restore_result'.before_row))]_vars

\* C18: a load that reads a CSV lacking a required column leaves
\* state.main_df None; while it is None the menu starts nothing but a load or
\* the exit, and it stops being None only by a load that returns True; on
\* the initial load the program ends instead of reaching the menu.
C18_MissingColumnsBlockOperations ==
    [][/\ load_result'.missing # {} => main_df_is_None'
       /\ (pc = "menu" /\ main_df_is_None) => chosen_action' \in {"none", "load_data", "exit"}
       /\ (main_df_is_None /\ ~main_df_is_None') =>
              (load_result'.returns = "True" /\ load_result'.missing = {})
       /\ (pc = "initial_load" /\ load_result'.missing # {}) => pc' = "ended"]_vars

\* at the menu, after a load there read a CSV without its Logic column
C18_Witness ==
    /\ pc = "menu"
    /\ chosen_action = "load_data"
    /\ load_result.missing = {"Logic"}
    /\ main_df_is_None

\* p has the form (segment '.')* name, every segment ending in '__r'
IsContextualPath(p, name) ==
    /\ Len(p) % 2 = 1
    /\ p[Len(p)] = name
    /\ \A j \in 1..(Len(p) - 1) :
          IF j % 2 = 1 THEN p[j] \in RelSegments ELSE p[j] = "."

\* the places <<m, k>> where a substring of that form stands in s with no
\* word character right before it or right after it
PathPlaces(s, name) ==
    {mk \in (1..Len(s)) \X (1..Len(s)) :
        /\ mk[1] <= mk[2]
        /\ IsContextualPath(SubSeq(s, mk[1], mk[2]), name)
        /\ (mk[1] = 1 \/ ~IsWord(s[mk[1] - 1]))
        /\ (mk[2] = Len(s) \/ ~IsWord(s[mk[2] + 1]))}

AllPaths(s, name) == {SubSeq(s, mk[1], mk[2]) : mk \in PathPlaces(s, name)}

\* the places that do not lie inside a longer one
MaximalPaths(s, name) ==
    {SubSeq(s, mk[1], mk[2]) :
        mk \in {a \in PathPlaces(s, name) :
                  ~\E b \in PathPlaces(s, name) :
                      b # a /\ b[1] <= a[1] /\ a[2] <= b[2]}}

\* the paths the audit of the menu found for a name in the Fields text of row 1
FoundInFields(name) ==
    {e.path : e \in {x \in UNION {audit_call.audit_data_rows[k].found :
                                    k \in 1..Len(audit_call.audit_data_rows)} :
                       x.field = name /\ "Fields" \in x.columns}}

\* C21 as stated: the search returns every word-bounded substring of the form
\* (segment '.')* name, the bare name inside a longer path included.
C21_AllBoundedSubstrings ==
    (chosen_action = "audit" /\ Len(audit_call.canonical_fields) = 1) =>
        FoundInFields(audit_call.canonical_fields[1])
            = AllPaths(str(df_orig[1].Fields), audit_call.canonical_fields[1])

\* C21: the search returns exactly the distinct word-bounded substrings of
\* the form (segment '.')* name that are not part of a longer such substring
\* (each occurrence of name once, with all the '__r' segments in front of it).
C21_MaximalBoundedSubstrings ==
    (chosen_action = "audit" /\ Len(audit_call.canonical_fields) = 1) =>
        FoundInFields(audit_call.canonical_fields[1])
            = MaximalPaths(str(df_orig[1].Fields), audit_call.canonical_fields[1])

\* a text holding the name inside a longer identifier and behind a
\* relationship segment, searched for the name
C21_Witness ==
    /\ chosen_action = "audit"
    /\ audit_call.canonical_fields = <<"A__c">>
    /\ df_orig[1].Fields = Join(<<<<"XA__c">>, fRelA>>, CommaSp)
    /\ FoundInFields("A__c") = {fRelA}

\* the prompts of _prompt_restore_state_selection and the answers that
\* cancel them
SelectionPrompts == {"state_select", "detail_confirm", "apply_select"}

CancelsSelection(entry) ==
    /\ entry.prompt \in SelectionPrompts
    /\ \/ entry.answer \in Cancels
       \/ entry.prompt = "apply_select" /\ entry.answer = "cancel"

\* C22: a cancelled prompt of _prompt_restore_state_selection is the last
\* prompt of the call and the call returns ('return_to_menu', None); the
\* call returns a chosen state option only after the apply prompt was
\* answered 'apply'.
C22_CancelEndsSelection ==
    /\ \A i \in 1..Len(dialog.asked) :
          CancelsSelection(dialog.asked[i]) =>
              /\ i = Len(dialog.asked)
              /\ dialog.at = "menu"
              /\ dialog.restore_selection =
                     [operation_flow_control |-> "return_to_menu", chosen_state_option |-> <<>>]
    /\ (dialog.restore_selection.operation_flow_control \notin {"not called", "asking"}
        /\ dialog.restore_selection.chosen_state_option # <<>>) =>
           dialog.asked[Len(dialog.asked)] = [prompt |-> "apply_select", answer |-> "apply"]

\* the detail confirmation was cancelled after a state had been selected
C22_Witness ==
    /\ Len(dialog.asked) >= 2
    /\ dialog.asked[Len(dialog.asked)] = [prompt |-> "detail_confirm", answer |-> "None"]
    /\ dialog.asked[Len(dialog.asked) - 1] = [prompt |-> "state_select", answer |-> "option"]
    /\ dialog.at = "menu"

\* a field name that holds the words "resize map", in any letter case
MentionsResizeMap(field_name) ==
    \E i \in 1..(Len(field_name) - 2) :
        /\ Lower(field_name[i]) = "resize"
        /\ field_name[i + 1] = " "
        /\ Lower(field_name[i + 2]) = "map"

\* the rows of the export a state option was built from
OptionRows(option) ==
    [k \in 1..Len(option.history_row_indices) |->
        history.history_df[option.history_row_indices[k]]]

\* C23: no state option built from a history export mentions a resize-map
\* field, neither among its fields_changed nor as the field of a change
\* (so rows of 'Resize Map' or 'Resize Map Entries' contribute nothing, a
\* tracker with only such rows has no option, and a resize-map name listed
\* with other names in one Field value is dropped from the reported name).
C23_NoResizeMapInOptions ==
    history.built =>
        \A k \in 1..Len(history.options) :
            /\ \A f \in 1..Len(history.options[k].fields_changed) :
                  ~MentionsResizeMap(history.options[k].fields_changed[f])
            /\ \A c \in 1..Len(history.options[k].changes) :
                  ~MentionsResizeMap(history.options[k].changes[c].field)

\* a Fields change whose old and new value list the same names in another order
IsFieldsChange(field_name) == LowerSeq(field_name) = <<"fields">>

PureReorder(old_value, new_value) ==
    /\ old_value # NaN
    /\ new_value # NaN
    /\ Range(CommaItems(old_value)) = Range(CommaItems(new_value))
    /\ CommaItems(old_value) # CommaItems(new_value)

\* a Query change whose SELECT list alone is reordered (the queries of the
\* exports have no other clause)
QueryReorder(old_value, new_value) ==
    /\ old_value # NaN
    /\ new_value # NaN
    /\ old_value # new_value
    /\ Range(_extract_field_tokens(old_value)) = Range(_extract_field_tokens(new_value))

\* C24: no state option is built for a timestamp all of whose rows are
\* pure reorders of Fields, while a timestamp with a Query row whose SELECT
\* list is reordered has an option.
C24_NoOptionForPureReorder ==
    history.built =>
        /\ \A k \in 1..Len(history.options) :
              \E r \in 1..Len(OptionRows(history.options[k])) :
                  LET row == OptionRows(history.options[k])[r]
                  IN ~(/\ _get_field_name(row) # None
                       /\ IsFieldsChange(_get_field_name(row))
                       /\ PureReorder(row.Old_Value, row.New_Value))
        /\ \A i \in 1..Len(history.history_df) :
              LET row == history.history_df[i]
              IN (/\ row.Tracker = history.tracker_name
                  /\ row.Modify_Date # NoDate
                  /\ _get_field_name(row) = <<"Query">>
                  /\ QueryReorder(row.Old_Value, row.New_Value)) =>
                     \E k \in 1..Len(history.options) :
                         history.options[k].restore_to = _parse_timestamp(row.Modify_Date)

\* the changes of the state option that was summarized
SummarizedChanges == history.options[history.summarized[1].option].changes

\* a summary line that reports the values of a field as changed
SaysValuesChanged(line) ==
    line.says \in {"values changed (expand to view details)", "values updated"}

\* C25: a Fields change that only reorders its tokens contributes no line to
\* the summary, collapsed or expanded (no line at all, that is "No change
\* details recorded", when such changes are the only ones), and a Query
\* change that only reorders its tokens is reported as "values changed".
C25_ReorderLeavesNoLine ==
    history.summarized # <<>> =>
        LET changes == SummarizedChanges
            summary == history.summarized[1].summary
            Reorder(c) == /\ IsFieldsChange(changes[c].field)
                          /\ PureReorder(changes[c].old_value, changes[c].new_value)
        IN /\ (\A c \in 1..Len(changes) : Reorder(c)) => summary = <<>>
           /\ (\A c \in 1..Len(changes) : IsFieldsChange(changes[c].field) => Reorder(c)) =>
                  \A l \in 1..Len(summary) :
                      ~(IsFieldsChange(summary[l].head) /\ SaysValuesChanged(summary[l]))
           /\ (/\ ~history.summarized[1].expanded
               /\ \E c \in 1..Len(changes) :
                     /\ changes[c].field = <<"Query">>
                     /\ QueryReorder(changes[c].old_value, changes[c].new_value)) =>
                  \E l \in 1..Len(summary) :
                      /\ summary[l].head = <<"Query">>
                      /\ summary[l].says = "values changed (expand to view details)"

\* the tokens of a Logic text without its blanks
LogicSymbols(text) == SelectSeq(text, LAMBDA t : t \notin WS)

\* every AND/OR stands between two operands, an operand being a position or
\* a parenthesis group, and no group is empty
OperatorsHaveOperands(text) ==
    LET sym == LogicSymbols(text)
        IsOperator(t) == t \in {"AND", "OR"}
    IN \A i \in 1..Len(sym) :
          /\ IsOperator(sym[i]) =>
                /\ i > 1
                /\ i < Len(sym)
                /\ isdigit(sym[i - 1]) \/ sym[i - 1] = ")"
                /\ isdigit(sym[i + 1]) \/ sym[i + 1] = "("
          /\ sym[i] = "(" => (i < Len(sym) /\ sym[i + 1] # ")")

\* C26: when a removal leaves at least two conditions of a row whose Logic
\* mentions exactly the positions of its conditions, the Logic after the
\* removal is a well-formed expression over the survivors: every AND/OR
\* has an operand on both sides and no parenthesis group is empty or begins
\* or ends with an operator.
C26_LogicStaysWellFormed ==
    \A k \in Processed :
        (/\ RowRemoveList(k) # <<>>
         /\ ConditionsMatchLogic(Before(k))
         /\ OperatorsHaveOperands(Before(k).Logic)
         /\ Len(After(k).Filters.conds) >= 2)
        => /\ OperatorsHaveOperands(After(k).Logic)
           /\ Positions(After(k).Logic) = 1..Len(After(k).Filters.conds)

\* the restore computed in the state, and the rows of the export that name
\* a column: rows of the tracker with a date not before restore_to and a
\* field that is not ignored
RestoredState == history.restored[1]

NamingRows(column) ==
    {i \in 1..Len(history.history_df) :
        LET row == history.history_df[i]
        IN /\ row.Tracker = history.tracker_name
           /\ row.Modify_Date # NoDate
           /\ row.Modify_Date[2] * 100 + row.Modify_Date[1] >= RestoredState.restore_to[1]
           /\ _get_field_name(row) # None
           /\ ~_is_ignored_field(_get_field_name(row))
           /\ TrackerColumn(_get_field_name(row)) = column}

OldestOf(rows) ==
    {i \in rows : \A j \in rows :
        history.history_df[i].Modify_Date[2] * 100 + history.history_df[i].Modify_Date[1]
          <= history.history_df[j].Modify_Date[2] * 100 + history.history_df[j].Modify_Date[1]}

\* C27: restore_tracker_state sets every column of the tracker row that a
\* non-ignored history row of the tracker dated restore_to or later names to
\* the Old Value of an oldest such row, leaves every other column as it is,
\* does not change current_df, and reports as many applied and skipped
\* changes together as history rows used.
C27_RestoreTakesOldestOldValue ==
    (history.restored # <<>> /\ ~RestoredState.result.raised) =>
        LET result == RestoredState.result
            tracker_row == df_orig[Min({i \in 1..Len(df_orig) :
                                           Tracker.names[i] = history.tracker_name})]
        IN /\ df_orig = <<SessionRow1, SessionRow2>>
           /\ result.before_row = <<tracker_row>>
           /\ \A column \in DOMAIN tracker_row :
                 IF NamingRows(column) = {}
                 THEN result.restored_row[1][column] = tracker_row[column]
                 ELSE \E i \in OldestOf(NamingRows(column)) :
                          result.restored_row[1][column] = history.history_df[i].Old_Value
           /\ Len(result.applied_changes) + Len(result.skipped_changes)
                  = result.history_rows_used
           /\ result.history_rows_used = Len(RestoredState.relevant_history)

\* a restore to the earlier of two states that both changed Fields, with a
\* third row that is skipped
C27_Witness ==
    /\ history.restored # <<>>
    /\ ~RestoredState.result.raised
    /\ \E i, j \in NamingRows("Fields") :
          /\ i \in OldestOf(NamingRows("Fields"))
          /\ j \notin OldestOf(NamingRows("Fields"))
          /\ history.history_df[i].Old_Value # history.history_df[j].Old_Value
    /\ Len(RestoredState.result.skipped_changes) = 1
    /\ Len(RestoredState.result.applied_changes) = 2

\* a condition on one of the requested references or on a dotted sub-path
\* of one
RequestedCondition(c, remove_list) ==
    /\ c.isdict
    /\ c.fkind = "str"
    /\ \E r \in 1..Len(remove_list) :
          \/ c.field = remove_list[r]
          \/ StartsWith(c.field, remove_list[r] \o <<".">>)

\* C28: the removal step takes out of Filters exactly the conditions on a
\* requested reference or on a dotted sub-path of one; every other
\* condition, also one on another path that ends in the same field name,
\* survives in its original order, and every original condition is kept
\* or has its 1-based position recorded as removed.
C28_OnlyRequestedConditionsRemoved ==
    \A k \in Processed :
        (/\ last_call.op = "remove"
         /\ RowRemoveList(k) # <<>>
         /\ Before(k).Filters.kind = "list")
        => LET conds == Before(k).Filters.conds
               Survives(c) == ~RequestedCondition(c, RowRemoveList(k))
           IN /\ After(k).Filters.conds = SelectSeq(conds, Survives)
              /\ RemovedPositions(Before(k), RowRemoveList(k))
                    = {pos \in 1..Len(conds) : ~Survives(conds[pos])}

\* the longer dotted path Rel__r.<old> of a bare name
LongerPath(old) == <<"Rel__r", ".">> \o old

\* C29: a swap of a bare name old -> new that is carried out as a swap
\* leaves the longer path Rel__r.old as it is in every column: each text
\* column holds it as often as before, and so do the fields of the Filters
\* conditions.
C29_SwapLeavesLongerPaths ==
    \A k \in Processed :
        (/\ last_call.op = "swap"
         /\ Len(last_call.swap_map_cmd) = 1
         /\ Len(last_call.swap_map_cmd[1][1]) = 1
         /\ RowSwaps(k) # <<>>
         /\ RowRemoveList(k) = <<>>)
        => LET longer == LongerPath(last_call.swap_map_cmd[1][1])
           IN /\ \A col \in TextColumns :
                    Occurrences(After(k)[col], longer) = Occurrences(Before(k)[col], longer)
              /\ FilterFieldCount(After(k).Filters, longer)
                    = FilterFieldCount(Before(k).Filters, longer)

\* C30: a cancelled or interrupted prompt of a remove, swap, add or restore
\* operation sends main_loop back to the menu: the tool does not exit, no
\* further prompt of the operation waits and modify_trackers is not called.
C30_CancelReturnsToMenu ==
    [][(/\ dialog.at \notin {"menu", "exited"}
        /\ Len(dialog'.asked) = Len(dialog.asked) + 1
        /\ dialog'.asked[Len(dialog'.asked)].answer \in Cancels) =>
           /\ pc' = "menu"
           /\ dialog'.at = "menu"
           /\ last_call' = last_call]_vars

====
